---- MODULE Spec2Model ----
(***************************************************************************)
(* Weaver issue tracker: the dependency graph (weaver/graph.py) and the    *)
(* issue lifecycle service (weaver/service.py) over the markdown store     *)
(* (weaver/storage.py).                                                    *)
(*                                                                         *)
(* The store is a function from the IDs of the stored issues to their      *)
(* records.  The service caches one DependencyGraph: graph is <<>> when    *)
(* the cache is absent and <<g>> when it holds g.  last describes the most *)
(* recent call: its name, the exception it raised (<<>> for none, else the *)
(* exception type followed by the issue ID it carries, if any) and the     *)
(* tuple of values it returned.  writes counts the calls of write_issue.   *)
(* given is the issue list handed to get_unblocked when the graph's        *)
(* methods are exercised on their own (<<>> otherwise).  clock is the      *)
(* value datetime.now() returns; an optional timestamp is <<>> for None    *)
(* and <<t>> for the time t, an optional parent is "" for None.            *)
(***************************************************************************)
EXTENDS Integers, Sequences, FiniteSets, TLC

VARIABLES issues, graph, last, writes, given, clock, walk, graph2, workflows, hints

vars == <<issues, graph, last, writes, given, clock, walk, graph2, workflows, hints>>

(***************************************************************************)
(* Bounds and input domains.                                               *)
(***************************************************************************)
\* The tokens generate_id can return (the 16-bit token space, scaled down).
IdOrder == <<"wv-a", "wv-b", "wv-c">>

IssueIds == {IdOrder[i] : i \in 1..Len(IdOrder)}

\* The IDs used in directly constructed graphs (room for a diamond).
GraphIdOrder == IdOrder \o <<"wv-d">>

GraphIds == {GraphIdOrder[i] : i \in 1..Len(GraphIdOrder)}

\* The blocked_by arguments of create_issue: no blocker, one blocker, or two
\* blockers (possibly the same one twice).
BlockedByArgs ==
    {<<>>} \cup {<<a>> : a \in IssueIds} \cup {<<a, b>> : a \in IssueIds, b \in IssueIds}

\* Number of storage writes explored from the empty store.
MaxWrites == 4

\* Latest value of the clock (it starts at 1).
MaxClock == 2

\* Largest number of edges of a directly constructed graph.
MaxEdges == 4

\* Largest number of blocked_by entries (repeated ones counted) in an issue
\* list handed to build together with a list for get_unblocked.
MaxRefs == 2

Statuses == {"OPEN", "IN_PROGRESS", "BLOCKED", "CLOSED"}

(***************************************************************************)
(* Helpers for Python containers.                                          *)
(***************************************************************************)
EmptyDict == [k \in {} |-> {}]

\* dict.get(k, set())
Get(d, k) == IF k \in DOMAIN d THEN d[k] ELSE {}

\* defaultdict(set)[k].add(v)
AddTo(d, k, v) == [x \in (DOMAIN d) \cup {k} |-> IF x = k THEN Get(d, k) \cup {v} ELSE d[x]]

\* dict[k] = v
Put(d, k, v) == [x \in (DOMAIN d) \cup {k} |-> IF x = k THEN v ELSE d[x]]

Range(s) == {s[i] : i \in 1..Len(s)}

\* Every order in which the elements of a set can be iterated.
Orderings(S) == {s \in [1..Cardinality(S) -> S] : Range(s) = S}

\* Sequences over S of length at most n.
SeqsUpTo(S, n) == UNION {[1..k -> S] : k \in 0..n}

\* list.remove(v): drops the first occurrence.
RECURSIVE RemoveFirst(_, _)
RemoveFirst(s, v) ==
    IF s = <<>> THEN <<>>
    ELSE IF Head(s) = v THEN Tail(s)
    ELSE <<Head(s)>> \o RemoveFirst(Tail(s), v)

(***************************************************************************)
(* weaver/models.py                                                        *)
(***************************************************************************)
\* "priority: int = 2"
DefaultPriority == 2

\* The dataclass Issue, constructed at time now: priority defaults to 2,
\* labels to the empty list, closed_at to None, created_at and updated_at to
\* datetime.now().  The labels of an issue are held as a set, which is how
\* the service reads them.
Issue(id, status, blocked_by, parent, now) ==
    [id |-> id, status |-> status, blocked_by |-> blocked_by, parent |-> parent,
     priority |-> DefaultPriority, labels |-> {},
     created_at |-> now, updated_at |-> now, closed_at |-> <<>>]

is_open(issue) == issue.status \in {"OPEN", "IN_PROGRESS", "BLOCKED"}

\* secrets.token_hex(2): any token, whether or not it is already in use.
\* The service treats all unused tokens alike, so one of them (the first in
\* IdOrder) stands for every fresh token; each used token is a collision.
generate_id(used) ==
    used \cup {IdOrder[i] : i \in {j \in 1..Len(IdOrder) :
                                     /\ IdOrder[j] \notin used
                                     /\ \A k \in 1..(j - 1) : IdOrder[k] \in used}}

(***************************************************************************)
(* weaver/graph.py                                                         *)
(***************************************************************************)
RECURSIVE build_blockers(_, _, _)
build_blockers(g, id, bb) ==
    IF bb = <<>> THEN g
    ELSE build_blockers([g EXCEPT !.blocked_by = AddTo(@, id, Head(bb)),
                                  !.blocks = AddTo(@, Head(bb), id)],
                        id, Tail(bb))

RECURSIVE build_loop(_, _)
build_loop(g, L) ==
    IF L = <<>> THEN g
    ELSE build_loop(build_blockers([g EXCEPT !.all_ids = @ \cup {Head(L).id}],
                                   Head(L).id, Head(L).blocked_by),
                    Tail(L))

\* build with "blocks[issue.id].add(blocker_id)": both maps in one direction.
build_same_direction(L) ==
    LET g == build_loop([blocked_by |-> EmptyDict, blocks |-> EmptyDict, all_ids |-> {}], L)
    IN [g EXCEPT !.blocks = g.blocked_by]

\* build that keeps a blocks entry only for the IDs of the input issues.
build_dropping_unknown(L) ==
    LET g == build_loop([blocked_by |-> EmptyDict, blocks |-> EmptyDict, all_ids |-> {}], L)
    IN [g EXCEPT !.blocks = [k \in (DOMAIN g.blocks) \cap g.all_ids |-> g.blocks[k]]]

build(L) == build_loop([blocked_by |-> EmptyDict, blocks |-> EmptyDict, all_ids |-> {}], L)

\* is_blocked without "& open_ids": any blocker blocks, closed or not.
is_blocked_by_any(g, issue_id, open_ids) == Get(g.blocked_by, issue_id) # {}

\* is_blocked with the test turned around: blocked by a blocker that is not open.
is_blocked_by_closed(g, issue_id, open_ids) == (Get(g.blocked_by, issue_id) \ open_ids) # {}

is_blocked(g, issue_id, open_ids) == (Get(g.blocked_by, issue_id) \cap open_ids) # {}

\* get_unblocked without "issue.status != Status.BLOCKED".
get_unblocked_ignoring_status(g, open_issues) ==
    LET open_ids == {open_issues[i].id : i \in {j \in 1..Len(open_issues) : is_open(open_issues[j])}}
        Keep(issue) == is_open(issue) /\ ~is_blocked(g, issue.id, open_ids)
    IN SelectSeq(open_issues, Keep)

get_unblocked(g, open_issues) ==
    LET open_ids == {open_issues[i].id : i \in {j \in 1..Len(open_issues) : is_open(open_issues[j])}}
        Keep(issue) == /\ is_open(issue)
                       /\ issue.status # "BLOCKED"
                       /\ ~is_blocked(g, issue.id, open_ids)
    IN SelectSeq(open_issues, Keep)

\* The while loop of detect_cycle.  stack.extend(set) pushes the blockers in
\* the set's iteration order, which is not fixed: the result is the set of
\* values the loop can return.
RECURSIVE detect_cycle_loop(_, _, _, _)
detect_cycle_loop(g, from_id, visited, stack) ==
    IF stack = <<>> THEN {FALSE}
    ELSE LET current == stack[Len(stack)]
             rest == SubSeq(stack, 1, Len(stack) - 1)
         IN IF current = from_id THEN {TRUE}
            ELSE IF current \in visited THEN detect_cycle_loop(g, from_id, visited, rest)
            ELSE UNION {detect_cycle_loop(g, from_id, visited \cup {current}, rest \o ord) :
                          ord \in Orderings(Get(g.blocked_by, current))}

\* detect_cycle with the stack seeded with to_id's blockers instead of to_id.
detect_cycle_from_blockers(g, from_id, to_id) ==
    UNION {detect_cycle_loop(g, from_id, {to_id}, ord) : ord \in Orderings(Get(g.blocked_by, to_id))}

\* detect_cycle walking the blocks map instead of blocked_by.
detect_cycle_along_blocks(g, from_id, to_id) ==
    detect_cycle_loop([g EXCEPT !.blocked_by = g.blocks], from_id, {}, <<to_id>>)

detect_cycle(g, from_id, to_id) == detect_cycle_loop(g, from_id, {}, <<to_id>>)

get_blockers(g, issue_id) == Get(g.blocked_by, issue_id)

get_blocked_by_this(g, issue_id) == Get(g.blocks, issue_id)

\* dfs of get_transitive_blockers on one node; st = [visited, result].  The
\* for loop iterates a set, in any order: the result is the set of states
\* the traversal can end in.
\* dfs_append without the test for the starting issue.
dfs_append_always(issue_id, current_id, st) == [st EXCEPT !.result = Append(@, current_id)]

\* "if current_id != issue_id: result.append(current_id)"
dfs_append(issue_id, current_id, st) ==
    IF current_id # issue_id THEN [st EXCEPT !.result = Append(@, current_id)] ELSE st

RECURSIVE dfs(_, _, _, _), dfs_children(_, _, _, _)
dfs(g, issue_id, current_id, st) ==
    IF current_id \in st.visited THEN {st}
    ELSE LET st1 == [st EXCEPT !.visited = @ \cup {current_id}]
         IN {dfs_append(issue_id, current_id, s) :
               s \in dfs_children(g, issue_id, Get(g.blocked_by, current_id), st1)}

dfs_children(g, issue_id, todo, st) ==
    IF todo = {} THEN {st}
    ELSE UNION {UNION {dfs_children(g, issue_id, todo \ {b}, s) : s \in dfs(g, issue_id, b, st)} :
                  b \in todo}

Reverse(s) == [i \in 1..Len(s) |-> s[Len(s) + 1 - i]]

\* get_transitive_blockers with "result.insert(0, current_id)".
get_transitive_blockers_prepending(g, issue_id) ==
    {Reverse(s.result) : s \in dfs(g, issue_id, issue_id, [visited |-> {}, result |-> <<>>])}

get_transitive_blockers(g, issue_id) ==
    {s.result : s \in dfs(g, issue_id, issue_id, [visited |-> {}, result |-> <<>>])}

(***************************************************************************)
(* weaver/storage.py                                                       *)
(***************************************************************************)
\* A store maps the ID of each issue file to the metadata of the file; the
\* closed_at key is absent (<<>>) or holds a time.
\* _parse_datetime: a missing value parses to datetime.now().
_parse_datetime(value, now) == IF value = <<>> THEN <<now>> ELSE value

\* _parse_issue: updated_at is in every file, closed_at may be missing.
_parse_issue(metadata, now) == [metadata EXCEPT !.closed_at = _parse_datetime(@, now)]

\* _serialize_issue: closed_at is written only "if issue.closed_at".
_serialize_issue(issue) == [issue EXCEPT !.closed_at = IF @ # <<>> THEN @ ELSE <<>>]

read_issue(store, issue_id, now) ==
    IF issue_id \in DOMAIN store THEN <<_parse_issue(store[issue_id], now)>> ELSE <<>>

write_issue(store, issue) == Put(store, issue.id, _serialize_issue(issue))

\* The files of the issues directory, in the order glob yields them.
read_all_issues(store, now) ==
    {[i \in 1..Len(ord) |-> read_issue(store, ord[i], now)[1]] : ord \in Orderings(DOMAIN store)}

(***************************************************************************)
(* weaver/service.py: IssueService                                         *)
(***************************************************************************)
Call(op, err, ret) == [op |-> op, err |-> err, ret |-> ret]

NoCall == Call("", <<>>, <<>>)

\* The traversal in progress: the running method (op, "" for none), the ID
\* it was called for (root), the local variables visited, stack and result,
\* the frames of the recursive calls, and the nodes whose blockers it has
\* looked up so far, in order.
Walk(op, root, stack, frames) ==
    [op |-> op, root |-> root, visited |-> {}, stack |-> stack, frames |-> frames,
     result |-> <<>>, expanded |-> <<>>]

Idle == Walk("", "", <<>>, <<>>)

IssueNotFoundError(issue_id) == <<"IssueNotFoundError", issue_id>>

DependencyError == <<"DependencyError">>

\* _get_graph that reads the store on every call.
_get_graph_rebuilding(store, cache, now) == {build(L) : L \in read_all_issues(store, now)}

\* The graphs _get_graph can return: the cached one, or one built from a
\* fresh read of the store.
_get_graph(store, cache, now) ==
    IF cache # <<>> THEN {cache[1]} ELSE {build(L) : L \in read_all_issues(store, now)}

\* validate_issue_exists that accepts every ID.
validate_issue_exists_always(store, issue_id, now) == TRUE

validate_issue_exists(store, issue_id, now) == read_issue(store, issue_id, now) # <<>>

\* The outcome of a call: the store and the cache it leaves, the exception
\* it raises, the values it returns and the number of write_issue calls.
Outcome(store, cache, err, ret, written) ==
    [issues |-> store, graph |-> cache, err |-> err, ret |-> ret, written |-> written]

\* A call that raises before it has touched the store or the cache.
Raise(store, cache, err) == Outcome(store, cache, err, <<>>, 0)

\* _invalidate_graph that leaves the cached graph in place.
_invalidate_graph_keeping(cache) == cache

_invalidate_graph(cache) == <<>>

\* update_issue without the call of _invalidate_graph.
update_issue_keeping_cache(store, cache, issue, now) ==
    LET updated == [issue EXCEPT !.updated_at = now]
    IN [issue |-> updated,
        out |-> Outcome(write_issue(store, updated), cache, <<>>, <<>>, 1)]

\* update_issue: "issue.updated_at = datetime.now()", storage.write_issue and
\* _invalidate_graph.  issue is the caller's object after the call, out the
\* outcome of a method that returns nothing after it.
update_issue(store, cache, issue, now) ==
    LET updated == [issue EXCEPT !.updated_at = now]
    IN [issue |-> updated,
        out |-> Outcome(write_issue(store, updated), _invalidate_graph(cache), <<>>, <<>>, 1)]

\* A method that ends with "self.update_issue(issue); return issue".
update_and_return(store, cache, issue, now) ==
    LET u == update_issue(store, cache, issue, now)
    IN [u.out EXCEPT !.ret = <<u.issue>>]

\* The order of the key "(i.created_at, i.priority)".
KeyLE_created_at_first(a, b) ==
    \/ a.created_at < b.created_at
    \/ a.created_at = b.created_at /\ a.priority <= b.priority

\* The order of the sort key "(i.priority, i.created_at)".
KeyLE(a, b) ==
    \/ a.priority < b.priority
    \/ a.priority = b.priority /\ a.created_at <= b.created_at

\* Inserts x into the sorted list s behind every element whose key is not
\* greater than the key of x.
RECURSIVE insert_sorted(_, _)
insert_sorted(x, s) ==
    IF s = <<>> THEN <<x>>
    ELSE IF KeyLE(Head(s), x) THEN <<Head(s)>> \o insert_sorted(x, Tail(s))
    ELSE <<x>> \o s

\* A stable sort by the key.
RECURSIVE stable_sort(_)
stable_sort(L) ==
    IF L = <<>> THEN <<>>
    ELSE insert_sorted(L[Len(L)], stable_sort(SubSeq(L, 1, Len(L) - 1)))

\* sorted(L, key=lambda i: (i.priority, i.created_at)): Python's sort is
\* stable, issues with equal keys keep the order they have in L.
sorted(L) == stable_sort(L)

\* The exception create_issue raises for a blocked_by entry or a parent that
\* is not stored, carrying the missing ID.
MissingReference(dep_id) == <<"DependencyError", dep_id>>

\* The first entry of blocked_by that is not stored, if any (the for loop
\* raises at the first one).
\* FirstMissing without the existence test: every reference is accepted.
FirstMissing_unchecked(store, blocked_by, now) == <<>>

FirstMissing(store, blocked_by, now) ==
    SelectSeq(blocked_by, LAMBDA dep_id : ~validate_issue_exists(store, dep_id, now))

\* create_issue without the validation of the parent reference.
create_issue_unchecked_parent(store, cache, priority, labels, blocked_by, parent, new_id, now) ==
    IF FirstMissing(store, blocked_by, now) # <<>>
    THEN {Raise(store, cache, MissingReference(Head(FirstMissing(store, blocked_by, now))))}
    ELSE LET issue == [Issue(new_id, "OPEN", blocked_by, parent, now)
                         EXCEPT !.priority = priority, !.labels = labels]
         IN {Outcome(write_issue(store, issue), _invalidate_graph(cache), <<>>, <<issue>>, 1)}

create_issue(store, cache, priority, labels, blocked_by, parent, new_id, now) ==
    IF FirstMissing(store, blocked_by, now) # <<>>
    THEN {Raise(store, cache, MissingReference(Head(FirstMissing(store, blocked_by, now))))}
    ELSE IF parent # "" /\ ~validate_issue_exists(store, parent, now)
    THEN {Raise(store, cache, MissingReference(parent))}
    ELSE LET issue == [Issue(new_id, "OPEN", blocked_by, parent, now)
                         EXCEPT !.priority = priority, !.labels = labels]
         IN {Outcome(write_issue(store, issue), _invalidate_graph(cache), <<>>, <<issue>>, 1)}

\* close_issue that also takes the closed issue out of every blocked_by list.
close_issue_unlinking(store, cache, issue_id, now) ==
    LET found == read_issue(store, issue_id, now)
    IN IF found = <<>>
       THEN {Raise(store, cache, IssueNotFoundError(issue_id))}
       ELSE LET issue == [found[1] EXCEPT !.status = "CLOSED", !.closed_at = <<now>>]
                o == update_and_return(store, cache, issue, now)
            IN {[o EXCEPT !.issues = [id \in DOMAIN o.issues |->
                                        [o.issues[id] EXCEPT !.blocked_by =
                                           SelectSeq(@, LAMBDA b : b # issue_id)]]]}

close_issue(store, cache, issue_id, now) ==
    LET found == read_issue(store, issue_id, now)
    IN IF found = <<>>
       THEN {Raise(store, cache, IssueNotFoundError(issue_id))}
       ELSE LET issue == [found[1] EXCEPT !.status = "CLOSED", !.closed_at = <<now>>]
            IN {update_and_return(store, cache, issue, now)}

start_issue(store, cache, issue_id, now) ==
    LET found == read_issue(store, issue_id, now)
    IN IF found = <<>>
       THEN {Raise(store, cache, IssueNotFoundError(issue_id))}
       ELSE {update_and_return(store, cache, [found[1] EXCEPT !.status = "IN_PROGRESS"], now)}

\* update_issue_status without "and issue.closed_at is None".
update_issue_status_overwriting(store, cache, issue_id, new_status, now) ==
    LET found == read_issue(store, issue_id, now)
    IN IF found = <<>>
       THEN {Raise(store, cache, IssueNotFoundError(issue_id))}
       ELSE LET issue == [found[1] EXCEPT !.status = new_status]
                closed == IF new_status = "CLOSED"
                          THEN [issue EXCEPT !.closed_at = <<now>>]
                          ELSE issue
            IN {update_and_return(store, cache, closed, now)}

update_issue_status(store, cache, issue_id, new_status, now) ==
    LET found == read_issue(store, issue_id, now)
    IN IF found = <<>>
       THEN {Raise(store, cache, IssueNotFoundError(issue_id))}
       ELSE LET issue == [found[1] EXCEPT !.status = new_status]
                closed == IF new_status = "CLOSED" /\ issue.closed_at = <<>>
                          THEN [issue EXCEPT !.closed_at = <<now>>]
                          ELSE issue
            IN {update_and_return(store, cache, closed, now)}

\* add_dependency that appends and persists before it checks for a cycle.
add_dependency_checking_late(store, cache, issue_id, blocked_by_id, now) ==
    LET found == read_issue(store, issue_id, now)
    IN IF found = <<>> THEN {Raise(store, cache, IssueNotFoundError(issue_id))}
       ELSE IF ~validate_issue_exists(store, blocked_by_id, now)
       THEN {Raise(store, cache, IssueNotFoundError(blocked_by_id))}
       ELSE UNION {
              {LET o == IF blocked_by_id \notin Range(found[1].blocked_by)
                        THEN update_issue(store, <<g>>,
                                          [found[1] EXCEPT !.blocked_by = Append(@, blocked_by_id)],
                                          now).out
                        ELSE Outcome(store, <<g>>, <<>>, <<>>, 0)
               IN IF cycle THEN [o EXCEPT !.err = DependencyError] ELSE o :
                 cycle \in detect_cycle(g, issue_id, blocked_by_id)} :
              g \in _get_graph(store, cache, now)}

add_dependency(store, cache, issue_id, blocked_by_id, now) ==
    LET found == read_issue(store, issue_id, now)
    IN IF found = <<>> THEN {Raise(store, cache, IssueNotFoundError(issue_id))}
       ELSE IF ~validate_issue_exists(store, blocked_by_id, now)
       THEN {Raise(store, cache, IssueNotFoundError(blocked_by_id))}
       ELSE UNION {
              {IF cycle THEN Outcome(store, <<g>>, DependencyError, <<>>, 0)
               ELSE IF blocked_by_id \notin Range(found[1].blocked_by)
               THEN update_issue(store, <<g>>,
                                 [found[1] EXCEPT !.blocked_by = Append(@, blocked_by_id)], now).out
               ELSE Outcome(store, <<g>>, <<>>, <<>>, 0) :
                 cycle \in detect_cycle(g, issue_id, blocked_by_id)} :
              g \in _get_graph(store, cache, now)}

\* remove_dependency that persists the issue whether or not it removed.
remove_dependency_always_updating(store, cache, issue_id, blocked_by_id, now) ==
    LET found == read_issue(store, issue_id, now)
    IN IF found = <<>> THEN {Raise(store, cache, IssueNotFoundError(issue_id))}
       ELSE {update_issue(store, cache,
                          [found[1] EXCEPT !.blocked_by = RemoveFirst(@, blocked_by_id)], now).out}

\* remove_dependency that is a silent no-op for a missing issue too.
remove_dependency_permissive(store, cache, issue_id, blocked_by_id, now) ==
    LET found == read_issue(store, issue_id, now)
    IN IF found = <<>> THEN {Outcome(store, cache, <<>>, <<>>, 0)}
       ELSE IF blocked_by_id \in Range(found[1].blocked_by)
       THEN {update_issue(store, cache,
                          [found[1] EXCEPT !.blocked_by = RemoveFirst(@, blocked_by_id)], now).out}
       ELSE {Outcome(store, cache, <<>>, <<>>, 0)}

remove_dependency(store, cache, issue_id, blocked_by_id, now) ==
    LET found == read_issue(store, issue_id, now)
    IN IF found = <<>> THEN {Raise(store, cache, IssueNotFoundError(issue_id))}
       ELSE IF blocked_by_id \in Range(found[1].blocked_by)
       THEN {update_issue(store, cache,
                          [found[1] EXCEPT !.blocked_by = RemoveFirst(@, blocked_by_id)], now).out}
       ELSE {Outcome(store, cache, <<>>, <<>>, 0)}

\* "label_set & set(i.labels)" for the label list labels.
shares_label(labels, issue) == (Range(labels) \cap issue.labels) # {}

\* "ready[:limit]"
truncate(L, n) == SubSeq(L, 1, IF n < Len(L) THEN n ELSE Len(L))

\* get_ready_issues that keeps the issues carrying every given label.
get_ready_issues_matching_all(store, cache, labels, limit, now) ==
    UNION {UNION {{LET ready == get_unblocked(g, SelectSeq(all, is_open))
                       filtered == IF labels # <<>>
                                   THEN SelectSeq(ready, LAMBDA i : Range(labels) \subseteq i.labels)
                                   ELSE ready
                       ordered == sorted(filtered)
                       limited == IF limit # <<>> /\ limit[1] # 0
                                  THEN truncate(ordered, limit[1])
                                  ELSE ordered
                   IN Outcome(store, <<g>>, <<>>, <<limited>>, 0)} :
                  g \in _get_graph(store, cache, now)} :
           all \in read_all_issues(store, now)}

\* get_ready_issues(labels, limit): labels is the label list (<<>> for None
\* or the empty list), limit is <<>> for None and <<n>> for n.  "if labels"
\* and "if limit" test for truth: an empty list and 0 count as not given.
get_ready_issues(store, cache, labels, limit, now) ==
    UNION {UNION {{LET ready == get_unblocked(g, SelectSeq(all, is_open))
                       filtered == IF labels # <<>>
                                   THEN SelectSeq(ready, LAMBDA i : shares_label(labels, i))
                                   ELSE ready
                       ordered == sorted(filtered)
                       limited == IF limit # <<>> /\ limit[1] # 0
                                  THEN truncate(ordered, limit[1])
                                  ELSE ordered
                   IN Outcome(store, <<g>>, <<>>, <<limited>>, 0)} :
                  g \in _get_graph(store, cache, now)} :
           all \in read_all_issues(store, now)}

\* list_issues(status, labels, exclude_closed): status is <<>> for None and
\* <<s>> for the status s.
list_issues(store, cache, status, labels, exclude_closed, now) ==
    {LET by_status == IF status # <<>>
                      THEN SelectSeq(all, LAMBDA i : i.status = status[1])
                      ELSE all
         by_label == IF labels # <<>>
                     THEN SelectSeq(by_status, LAMBDA i : shares_label(labels, i))
                     ELSE by_status
         open == IF exclude_closed
                 THEN SelectSeq(by_label, LAMBDA i : i.status # "CLOSED")
                 ELSE by_label
     IN Outcome(store, cache, <<>>, <<sorted(open)>>, 0) :
       all \in read_all_issues(store, now)}

\* get_issue_with_dependencies that fails on a blocker ID without an issue.
get_issue_with_dependencies_strict(store, cache, issue_id, now) ==
    LET found == read_issue(store, issue_id, now)
    IN IF found = <<>> THEN {Raise(store, cache, IssueNotFoundError(issue_id))}
       ELSE UNION {
              {IF \E i \in 1..Len(dep_ids) : read_issue(store, dep_ids[i], now) = <<>>
               THEN Raise(store, <<g>>, IssueNotFoundError(issue_id))
               ELSE Outcome(store, <<g>>, <<>>,
                            <<found[1], [i \in 1..Len(dep_ids) |-> read_issue(store, dep_ids[i], now)[1]]>>, 0) :
                 dep_ids \in get_transitive_blockers(g, issue_id)} :
              g \in _get_graph(store, cache, now)}

\* get_issue_with_dependencies: the issue and the stored issues among its
\* transitive blockers, in the traversal's order.
get_issue_with_dependencies(store, cache, issue_id, now) ==
    LET found == read_issue(store, issue_id, now)
    IN IF found = <<>> THEN {Raise(store, cache, IssueNotFoundError(issue_id))}
       ELSE UNION {
              {LET stored == SelectSeq(dep_ids, LAMBDA d : read_issue(store, d, now) # <<>>)
                   dependencies == [i \in 1..Len(stored) |-> read_issue(store, stored[i], now)[1]]
               IN Outcome(store, <<g>>, <<>>, <<found[1], dependencies>>, 0) :
                 dep_ids \in get_transitive_blockers(g, issue_id)} :
              g \in _get_graph(store, cache, now)}

\* str.lower() on the names and titles in use.
lower(str) ==
    CASE str \in {"Tip", "TIP"} -> "tip"
      [] str = "Release" -> "release"
      [] OTHER -> str

\* WorkflowStep: title and depends_on as given, priority and labels default.
WorkflowStep(title, depends_on) ==
    [title |-> title, depends_on |-> depends_on, priority |-> DefaultPriority, labels |-> {}]

Workflow(id, name, steps) == [id |-> id, name |-> name, steps |-> steps]

\* WorkflowStorage.read_workflow: the workflow file with that ID, or None.
read_workflow(wfs, workflow_id) ==
    IF workflow_id \in DOMAIN wfs THEN <<wfs[workflow_id]>> ELSE <<>>

\* find_workflow_by_name: a stored workflow with that name ignoring case;
\* the stored names differ.
find_workflow_by_name(wfs, name) ==
    LET hits == {id \in DOMAIN wfs : lower(wfs[id].name) = lower(name)}
    IN IF hits = {} THEN <<>> ELSE <<wfs[CHOOSE id \in hits : TRUE]>>

get_workflow(wfs, name_or_id) ==
    IF read_workflow(wfs, name_or_id) # <<>> THEN read_workflow(wfs, name_or_id)
    ELSE find_workflow_by_name(wfs, name_or_id)

ValueError == <<"ValueError">>

\* The exception of created_issues[dep_title] for a title that is no key.
KeyError(key) == <<"KeyError", key>>

\* created_issues, a dict in insertion order, as a list of [title, issue]
\* entries: "created_issues[title] = issue".
created_put(created, title, issue) ==
    IF \E k \in 1..Len(created) : created[k].title = title
    THEN [k \in 1..Len(created) |->
            IF created[k].title = title THEN [title |-> title, issue |-> issue] ELSE created[k]]
    ELSE Append(created, [title |-> title, issue |-> issue])

\* "created_issues[title]" for a title that is a key.
created_get(created, title) ==
    created[CHOOSE k \in 1..Len(created) : created[k].title = title].issue

created_keys(created) == {created[k].title : k \in 1..Len(created)}

\* The first title of depends_on that is no key of created_issues, if any.
first_unresolved(created, depends_on) ==
    SelectSeq(depends_on, LAMBDA t : t \notin created_keys(created))

\* The workflow label "workflow:{name}".
workflow_label(name) == "workflow:" \o name

\* The loop "for step in workflow.steps" of execute_workflow, from the step
\* list steps on.  An exception leaves the loop with the issues created so
\* far in the store.
RECURSIVE create_steps(_, _, _, _, _, _, _)
create_steps(steps, label, store, cache, created, written, now) ==
    IF steps = <<>>
    THEN {Outcome(store, cache, <<>>,
                  <<[k \in 1..Len(created) |-> created[k].issue]>>, written)}
    ELSE LET step == Head(steps)
             unresolved == first_unresolved(created, step.depends_on)
         IN IF unresolved # <<>>
            THEN {Outcome(store, cache, KeyError(unresolved[1]), <<>>, written)}
            ELSE LET blocked_by == [k \in 1..Len(step.depends_on) |->
                                      created_get(created, step.depends_on[k]).id]
                 IN UNION {
                      UNION {IF o.err # <<>> THEN {[o EXCEPT !.written = written]}
                             ELSE create_steps(Tail(steps), label, o.issues, o.graph,
                                               created_put(created, step.title, o.ret[1]),
                                               written + 1, now) :
                               o \in create_issue(store, cache, step.priority,
                                                  step.labels \cup {label}, blocked_by, "",
                                                  new_id, now)} :
                      new_id \in generate_id(DOMAIN store)}

\* The titles of depends_on lists that are not the title of a step, in the
\* order of the validation loop.
invalid_dependencies(steps) ==
    LET step_titles == {steps[k].title : k \in 1..Len(steps)}
    IN {<<k, j>> \in (1..Len(steps)) \X (1..Len(steps) + 2) :
          j <= Len(steps[k].depends_on) /\ steps[k].depends_on[j] \notin step_titles}

\* execute_workflow(workflow_name_or_id) without a label prefix.
execute_workflow(wfs, store, cache, workflow_name_or_id, now) ==
    LET workflow == get_workflow(wfs, workflow_name_or_id)
    IN IF workflow = <<>> THEN {Raise(store, cache, ValueError)}
       ELSE IF invalid_dependencies(workflow[1].steps) # {}
       THEN {Raise(store, cache, ValueError)}
       ELSE create_steps(workflow[1].steps, workflow_label(workflow[1].name),
                         store, cache, <<>>, 0, now)

(***************************************************************************)
(* One IssueService over an initially empty store.  Each action is one     *)
(* call of a service method and takes one of the call's outcomes.          *)
(***************************************************************************)
Step(op, outcomes) ==
    \E o \in {x \in outcomes : writes + x.written <= MaxWrites} :
      /\ issues' = o.issues
      /\ graph' = o.graph
      /\ last' = Call(op, o.err, o.ret)
      /\ writes' = writes + o.written
      /\ UNCHANGED <<given, workflows, hints, graph2, clock, walk>>

CreateIssue ==
    Step("create_issue",
         UNION {create_issue(issues, graph, DefaultPriority, {}, blocked_by, "", new_id, clock) :
                  blocked_by \in BlockedByArgs, new_id \in generate_id(DOMAIN issues)})

\* create_issue with a parent.
CreateChildIssue ==
    Step("create_issue",
         UNION {create_issue(issues, graph, DefaultPriority, {}, blocked_by, parent, new_id, clock) :
                  blocked_by \in {<<>>} \cup {<<a>> : a \in IssueIds}, parent \in IssueIds,
                  new_id \in generate_id(DOMAIN issues)})

CloseIssue ==
    Step("close_issue", UNION {close_issue(issues, graph, id, clock) : id \in IssueIds})

StartIssue ==
    Step("start_issue", UNION {start_issue(issues, graph, id, clock) : id \in IssueIds})

UpdateIssueStatus ==
    Step("update_issue_status",
         UNION {update_issue_status(issues, graph, id, s, clock) : id \in IssueIds, s \in Statuses})

AddDependency ==
    Step("add_dependency",
         UNION {add_dependency(issues, graph, id, b, clock) : id \in IssueIds, b \in IssueIds})

RemoveDependency ==
    Step("remove_dependency",
         UNION {remove_dependency(issues, graph, id, b, clock) : id \in IssueIds, b \in IssueIds})

GetReadyIssues == Step("get_ready_issues", get_ready_issues(issues, graph, <<>>, <<>>, clock))

GetIssueWithDependencies ==
    Step("get_issue_with_dependencies",
         UNION {get_issue_with_dependencies(issues, graph, id, clock) : id \in IssueIds})

\* Time passes between two calls.
Tick ==
    /\ clock < MaxClock
    /\ clock' = clock + 1
    /\ UNCHANGED <<issues, graph, last, writes, given, workflows, hints, graph2, walk>>

Init ==
    /\ issues = EmptyDict
    /\ graph = <<>>
    /\ last = NoCall
    /\ writes = 0
    /\ given = <<>>
    /\ clock = 1
    /\ graph2 = <<>>
    /\ workflows = EmptyDict
    /\ hints = EmptyDict
    /\ walk = Idle

Next ==
    \/ CreateIssue
    \/ CloseIssue
    \/ StartIssue
    \/ UpdateIssueStatus
    \/ AddDependency
    \/ RemoveDependency
    \/ GetReadyIssues
    \/ GetIssueWithDependencies

Spec == Init /\ [][Next]_vars

(***************************************************************************)
(* The service with issues that have parents.                              *)
(***************************************************************************)
NextCreate ==
    \/ CreateIssue
    \/ CreateChildIssue
    \/ AddDependency

SpecCreate == Init /\ [][NextCreate]_vars

(***************************************************************************)
(* The service while time passes: the status changes of issues that have  *)
(* no blockers, with the clock advancing between calls.                    *)
(***************************************************************************)
\* create_issue(title): no blocked_by, no parent.
CreatePlainIssue ==
    Step("create_issue",
         UNION {create_issue(issues, graph, DefaultPriority, {}, <<>>, "", new_id, clock) :
                  new_id \in generate_id(DOMAIN issues)})

NextClock ==
    \/ CreatePlainIssue
    \/ CloseIssue
    \/ StartIssue
    \/ UpdateIssueStatus
    \/ Tick

SpecClock == Init /\ [][NextClock]_vars

TypeOK ==
    /\ DOMAIN issues \subseteq IssueIds
    /\ \A id \in DOMAIN issues : issues[id].id = id /\ issues[id].status \in Statuses
    /\ Len(graph) \in {0, 1}
    /\ writes \in 0..MaxWrites
    /\ clock \in 1..MaxClock

(***************************************************************************)
(* The DependencyGraph on its own: a graph built from any issue list over  *)
(* GraphIds (cycles, self-edges and references to IDs that are not in the  *)
(* list included), then queried.                                           *)
(***************************************************************************)
\* The stores over ids whose blocked_by lists are taken from lists and hold
\* at most budget entries in all; every issue is OPEN.
RECURSIVE StoresOver(_, _, _)
StoresOver(ids, lists, budget) ==
    IF ids = {} THEN {EmptyDict}
    ELSE LET id == CHOOSE x \in ids : TRUE
         IN StoresOver(ids \ {id}, lists, budget) \cup
            UNION {{Put(rest, id, Issue(id, "OPEN", bb, "", 1)) :
                      rest \in StoresOver(ids \ {id}, lists, budget - Len(bb))} :
                   bb \in {l \in lists : Len(l) <= budget}}

\* One blocked_by list for each set of blockers.
BlockerSets == {SelectSeq(GraphIdOrder, LAMBDA x : x \in S) : S \in SUBSET GraphIds}

GraphInputs == StoresOver(GraphIds, BlockerSets, MaxEdges)

Query(op, results) ==
    /\ graph # <<>>
    /\ \E r \in results : last' = Call(op, <<>>, <<r>>)
    /\ UNCHANGED <<issues, graph, writes, given, workflows, hints, graph2, clock, walk>>

Build ==
    /\ graph = <<>>
    /\ \E L \in read_all_issues(issues, clock) : graph' = <<build(L)>>
    /\ last' = Call("build", <<>>, <<>>)
    /\ UNCHANGED <<issues, writes, given, workflows, hints, graph2, clock, walk>>

IsBlocked ==
    Query("is_blocked",
          {is_blocked(graph[1], id, open_ids) : id \in GraphIds, open_ids \in SUBSET GraphIds})

DetectCycle ==
    Query("detect_cycle",
          UNION {detect_cycle(graph[1], from_id, to_id) : from_id \in GraphIds, to_id \in GraphIds})

GetBlockers == Query("get_blockers", {get_blockers(graph[1], id) : id \in GraphIds})

GetBlockedByThis ==
    Query("get_blocked_by_this", {get_blocked_by_this(graph[1], id) : id \in GraphIds})

GetTransitiveBlockers ==
    Query("get_transitive_blockers",
          UNION {get_transitive_blockers(graph[1], id) : id \in GraphIds})

InitGraph ==
    /\ issues \in GraphInputs
    /\ graph = <<>>
    /\ last = NoCall
    /\ writes = 0
    /\ given = <<>>
    /\ clock = 1
    /\ graph2 = <<>>
    /\ workflows = EmptyDict
    /\ hints = EmptyDict
    /\ walk = Idle

NextGraph ==
    \/ Build
    \/ IsBlocked
    \/ DetectCycle
    \/ GetBlockers
    \/ GetBlockedByThis
    \/ GetTransitiveBlockers

SpecGraph == InitGraph /\ [][NextGraph]_vars

(***************************************************************************)
(* build and get_unblocked on their own: a graph built from any issue list *)
(* over IssueIds (blocked_by lists in any order, with repeated entries and *)
(* references to IDs that are not in the list), and get_unblocked applied  *)
(* to any list of issues with distinct IDs, whatever their status and      *)
(* whether or not the graph knows them.                                    *)
(***************************************************************************)
UnblockedGraphInputs == StoresOver(IssueIds, SeqsUpTo(IssueIds, MaxRefs), MaxRefs)

IssueLists ==
    UNION {{[i \in 1..Len(ord) |-> Issue(ord[i], st[ord[i]], <<>>, "", 1)] : st \in [S -> Statuses],
                                                                       ord \in Orderings(S)} :
           S \in SUBSET IssueIds}

GetUnblocked ==
    /\ graph # <<>>
    /\ last' = Call("get_unblocked", <<>>, <<get_unblocked(graph[1], given)>>)
    /\ UNCHANGED <<issues, graph, writes, given, workflows, hints, graph2, clock, walk>>

InitUnblocked ==
    /\ issues \in UnblockedGraphInputs
    /\ graph = <<>>
    /\ last = NoCall
    /\ writes = 0
    /\ given \in IssueLists
    /\ clock = 1
    /\ graph2 = <<>>
    /\ workflows = EmptyDict
    /\ hints = EmptyDict
    /\ walk = Idle

NextUnblocked ==
    \/ Build
    \/ GetUnblocked

SpecUnblocked == InitUnblocked /\ [][NextUnblocked]_vars

(***************************************************************************)
(* get_issue_with_dependencies on its own: called for any ID on a store    *)
(* whose blocked_by lists may hold cycles, self-edges and IDs that have no *)
(* issue file.                                                             *)
(***************************************************************************)
GetIssueWithDependenciesOfAny ==
    Step("get_issue_with_dependencies",
         UNION {get_issue_with_dependencies(issues, graph, id, clock) : id \in GraphIds})

NextDeps == GetIssueWithDependenciesOfAny

SpecDeps == InitGraph /\ [][NextDeps]_vars

(***************************************************************************)
(* The DependencyGraph as an object: the two traversals run one step at a  *)
(* time, every method reports what it does to the graph's maps, and the    *)
(* sets returned by get_blockers and get_blocked_by_this are objects the   *)
(* caller may change afterwards.  The graphs are built from stores over    *)
(* IssueIds with cycles, self-edges and IDs without an issue.              *)
(***************************************************************************)
TraversalInputs ==
    StoresOver(IssueIds, {SelectSeq(IdOrder, LAMBDA x : x \in S) : S \in SUBSET IssueIds}, MaxRefs)

\* dict.get(k, set()) leaves the dict as it is, also for an absent key.
after_get_inserting(d, k) == IF k \in DOMAIN d THEN d ELSE Put(d, k, {})

after_get(d, k) == d

RECURSIVE after_gets(_, _)
after_gets(d, keys) ==
    IF keys = <<>> THEN d ELSE after_gets(after_get(d, Head(keys)), Tail(keys))

\* The object d.get(k, set()) evaluates to: the set the dict holds under k
\* (owner names the map and the key), or a new empty set (no owner).
dict_get(d, name, k) ==
    IF k \in DOMAIN d THEN [set |-> d[k], owner |-> <<name, k>>]
    ELSE [set |-> {}, owner |-> <<>>]

\* Returning the looked-up set itself.
set_copy_sharing(object) == object

\* set.copy(): a new object with the same elements.
set_copy(object) == [object EXCEPT !.owner = <<>>]

\* "if current in visited" of detect_cycle, "if current_id in visited" of dfs.
already_visited_never(current, visited) == FALSE

already_visited(current, visited) == current \in visited

\* A method returns: the traversal is over.
Return(op, value) ==
    /\ walk' = Idle
    /\ last' = Call(op, <<>>, <<value>>)
    /\ UNCHANGED graph

\* detect_cycle(from_id, to_id) up to the while loop.
StartDetectCycle ==
    /\ graph # <<>>
    /\ walk = Idle
    /\ \E from_id \in IssueIds, to_id \in IssueIds :
         walk' = Walk("detect_cycle", from_id, <<to_id>>, <<>>)
    /\ last' = Call("detect_cycle", <<>>, <<>>)
    /\ UNCHANGED <<issues, graph, writes, given, workflows, hints, graph2, clock>>

\* One test of "while stack" and, if it holds, one pass of the loop body.
DetectCycleStep ==
    /\ walk.op = "detect_cycle"
    /\ IF walk.stack = <<>> THEN Return("detect_cycle", FALSE)
       ELSE LET current == walk.stack[Len(walk.stack)]
                rest == SubSeq(walk.stack, 1, Len(walk.stack) - 1)
            IN IF current = walk.root THEN Return("detect_cycle", TRUE)
               ELSE IF already_visited(current, walk.visited)
               THEN /\ walk' = [walk EXCEPT !.stack = rest]
                    /\ UNCHANGED <<graph, last>>
               ELSE /\ \E ord \in Orderings(Get(graph[1].blocked_by, current)) :
                         walk' = [walk EXCEPT !.visited = @ \cup {current},
                                              !.stack = rest \o ord,
                                              !.expanded = Append(@, current)]
                    /\ graph' = <<[graph[1] EXCEPT !.blocked_by = after_get(@, current)]>>
                    /\ UNCHANGED last
    /\ UNCHANGED <<issues, writes, given, workflows, hints, graph2, clock>>

\* get_transitive_blockers(issue_id) up to the call dfs(issue_id).  The
\* frames are the calls of dfs: the node, the blockers the for loop has
\* still to visit, and whether the frame is at its first line or in the loop.
StartGetTransitiveBlockers ==
    /\ graph # <<>>
    /\ walk = Idle
    /\ \E issue_id \in IssueIds :
         walk' = Walk("get_transitive_blockers", issue_id, <<>>,
                      <<[id |-> issue_id, todo |-> {}, pc |-> "enter"]>>)
    /\ last' = Call("get_transitive_blockers", <<>>, <<>>)
    /\ UNCHANGED <<issues, graph, writes, given, workflows, hints, graph2, clock>>

\* One step of the innermost dfs call: the visited test and the lookup of
\* the blockers, or one turn of the for loop, or the append and the return.
DfsStep ==
    /\ walk.op = "get_transitive_blockers"
    /\ IF walk.frames = <<>> THEN Return("get_transitive_blockers", walk.result)
       ELSE LET top == walk.frames[Len(walk.frames)]
                callers == SubSeq(walk.frames, 1, Len(walk.frames) - 1)
            IN IF top.pc = "enter"
               THEN IF already_visited(top.id, walk.visited)
                    THEN /\ walk' = [walk EXCEPT !.frames = callers]
                         /\ UNCHANGED <<graph, last>>
                    ELSE /\ walk' = [walk EXCEPT
                                       !.visited = @ \cup {top.id},
                                       !.expanded = Append(@, top.id),
                                       !.frames = Append(callers,
                                                        [id |-> top.id,
                                                         todo |-> Get(graph[1].blocked_by, top.id),
                                                         pc |-> "loop"])]
                         /\ graph' = <<[graph[1] EXCEPT !.blocked_by = after_get(@, top.id)]>>
                         /\ UNCHANGED last
               ELSE IF top.todo = {}
                    THEN /\ walk' = [dfs_append(walk.root, top.id, walk) EXCEPT !.frames = callers]
                         /\ UNCHANGED <<graph, last>>
                    ELSE /\ \E blocker_id \in top.todo :
                              walk' = [walk EXCEPT
                                         !.frames = Append(callers, [top EXCEPT !.todo = @ \ {blocker_id}])
                                                   \o <<[id |-> blocker_id, todo |-> {}, pc |-> "enter"]>>]
                         /\ UNCHANGED <<graph, last>>
    /\ UNCHANGED <<issues, writes, given, workflows, hints, graph2, clock>>

\* A method that runs in one step: what it returns and the graph it leaves.
Read(op, results) ==
    /\ graph # <<>>
    /\ walk = Idle
    /\ \E r \in results :
         /\ last' = Call(op, <<>>, <<r.ret>>)
         /\ graph' = <<r.graph>>
    /\ UNCHANGED <<issues, writes, given, workflows, hints, graph2, clock, walk>>

ReadIsBlocked ==
    Read("is_blocked",
         {[ret |-> is_blocked(graph[1], id, open_ids),
           graph |-> [graph[1] EXCEPT !.blocked_by = after_get(@, id)]] :
            id \in IssueIds, open_ids \in SUBSET IssueIds})

\* get_unblocked calls is_blocked for the issues that are open and not
\* BLOCKED, in the order of the list.
ReadGetUnblocked ==
    Read("get_unblocked",
         {[ret |-> get_unblocked(graph[1], L),
           graph |-> [graph[1] EXCEPT !.blocked_by =
                        after_gets(@, LET tested == SelectSeq(L, LAMBDA i : is_open(i) /\ i.status # "BLOCKED")
                                      IN [k \in 1..Len(tested) |-> tested[k].id])]] :
            L \in read_all_issues(issues, clock)})

ReadGetBlockers ==
    Read("get_blockers",
         {[ret |-> set_copy(dict_get(graph[1].blocked_by, "blocked_by", id)),
           graph |-> [graph[1] EXCEPT !.blocked_by = after_get(@, id)]] : id \in IssueIds})

ReadGetBlockedByThis ==
    Read("get_blocked_by_this",
         {[ret |-> set_copy(dict_get(graph[1].blocks, "blocks", id)),
           graph |-> [graph[1] EXCEPT !.blocks = after_get(@, id)]] : id \in IssueIds})

\* The caller adds an ID to the set a call returned, or discards one from
\* it.  A set owned by one of the graph's maps changes in the map as well.
MutateReturnedSet ==
    /\ walk = Idle
    /\ last.op \in {"get_blockers", "get_blocked_by_this"}
    /\ \E v \in IssueIds :
         LET object == last.ret[1]
             changed == IF v \in object.set THEN object.set \ {v} ELSE object.set \cup {v}
         IN /\ last' = [last EXCEPT !.ret = <<[object EXCEPT !.set = changed]>>]
            /\ graph' = IF object.owner = <<>> THEN graph
                         ELSE <<[graph[1] EXCEPT ![object.owner[1]] =
                                   Put(@, object.owner[2], changed)]>>
    /\ UNCHANGED <<issues, writes, given, workflows, hints, graph2, clock, walk>>

InitTraversal ==
    /\ issues \in TraversalInputs
    /\ graph = <<>>
    /\ last = NoCall
    /\ writes = 0
    /\ given = <<>>
    /\ clock = 1
    /\ graph2 = <<>>
    /\ workflows = EmptyDict
    /\ hints = EmptyDict
    /\ walk = Idle

NextTraversal ==
    \/ Build
    \/ StartDetectCycle
    \/ DetectCycleStep
    \/ StartGetTransitiveBlockers
    \/ DfsStep

\* A running traversal keeps running: its next step is taken.
SpecTraversal ==
    InitTraversal /\ [][NextTraversal]_vars /\ WF_vars(DetectCycleStep) /\ WF_vars(DfsStep)

NextReadOnly ==
    \/ NextTraversal
    \/ ReadIsBlocked
    \/ ReadGetUnblocked
    \/ ReadGetBlockers
    \/ ReadGetBlockedByThis
    \/ MutateReturnedSet

SpecReadOnly == InitTraversal /\ [][NextReadOnly]_vars

(***************************************************************************)
(* Two IssueService instances over one store.  Each has its own cached     *)
(* graph (graph for the first instance, graph2 for the second); a call of  *)
(* one instance leaves the cache of the other as it is.                    *)
(***************************************************************************)
\* A call of the second instance takes one of the call's outcomes.
Step2(op, outcomes) ==
    \E o \in {x \in outcomes : writes + x.written <= MaxWrites} :
      /\ issues' = o.issues
      /\ graph2' = o.graph
      /\ last' = Call(op, o.err, o.ret)
      /\ writes' = writes + o.written
      /\ UNCHANGED <<graph, given, workflows, hints, clock, walk>>

AddDependency2 ==
    Step2("2.add_dependency",
          UNION {add_dependency(issues, graph2, id, b, clock) : id \in IssueIds, b \in IssueIds})

GetReadyIssues2 ==
    Step2("2.get_ready_issues", get_ready_issues(issues, graph2, <<>>, <<>>, clock))

NextTwo ==
    \/ CreatePlainIssue
    \/ AddDependency
    \/ GetReadyIssues
    \/ AddDependency2
    \/ GetReadyIssues2

SpecTwo == Init /\ [][NextTwo]_vars

(***************************************************************************)
(* Working off a backlog: a store of issues in any status with blocked_by  *)
(* lists that may hold cycles, self-edges and IDs without an issue, on     *)
(* which issues are closed and the ready issues are asked for.             *)
(***************************************************************************)
BacklogStatuses == {"OPEN", "BLOCKED", "CLOSED"}

\* The stores of TraversalInputs with every assignment of statuses; a
\* closed issue carries its closing time.
Backlogs ==
    UNION {{[id \in DOMAIN s |->
               [s[id] EXCEPT !.status = st[id],
                             !.closed_at = IF st[id] = "CLOSED" THEN <<1>> ELSE <<>>]] :
              st \in [DOMAIN s -> BacklogStatuses]} :
           s \in TraversalInputs}

\* get_ready_issues() followed by close_issue for one of the issues returned.
CloseReady ==
    Step("close_issue",
         UNION {UNION {close_issue(r.issues, r.graph, r.ret[1][k].id, clock) :
                         k \in 1..Len(r.ret[1])} :
                r \in get_ready_issues(issues, graph, <<>>, <<>>, clock)})

InitBacklog ==
    /\ issues \in Backlogs
    /\ graph = <<>>
    /\ last = NoCall
    /\ writes = 0
    /\ given = <<>>
    /\ clock = 1
    /\ graph2 = <<>>
    /\ workflows = EmptyDict
    /\ hints = EmptyDict
    /\ walk = Idle

NextBacklog ==
    \/ CloseIssue
    \/ GetReadyIssues
    \/ CloseReady

SpecBacklog == InitBacklog /\ [][NextBacklog]_vars

NextWorkOff ==
    \/ GetReadyIssues
    \/ CloseReady

\* Work goes on: while some issue is ready, one of the ready issues is
\* closed in the end.
SpecWorkOff == InitBacklog /\ [][NextWorkOff]_vars /\ WF_vars(CloseReady)

(***************************************************************************)
(* The WorkflowService: one stored workflow of up to three steps, whose     *)
(* depends_on lists name earlier steps, later steps, the step itself or no  *)
(* step at all, executed on an initially empty issue store.                 *)
(***************************************************************************)
StepTitles == <<"design", "build", "test">>

\* The depends_on lists: none, one title (of a step or of no step), or two.
DependsOnLists ==
    {<<>>, <<"design">>, <<"build">>, <<"test">>, <<"deploy">>,
     <<"design", "build">>, <<"build", "design">>}

\* The step lists: the first n titles in order, each with a depends_on list.
StepLists ==
    UNION {{[k \in 1..n |-> WorkflowStep(StepTitles[k], deps[k])] :
              deps \in [1..n -> DependsOnLists]} :
           n \in 0..Len(StepTitles)}

\* The workflow stores: no workflow, or one workflow.
WorkflowStores ==
    {EmptyDict} \cup
    {Put(EmptyDict, "wv-workflow-a", Workflow("wv-workflow-a", "Release", steps)) :
       steps \in StepLists}

\* The workflow_name_or_id arguments: the ID, the name in another case, and
\* a name that no workflow has.
WorkflowArgs == {"wv-workflow-a", "release", "hotfix"}

ExecuteWorkflow ==
    Step("execute_workflow",
         UNION {execute_workflow(workflows, issues, graph, name_or_id, clock) :
                  name_or_id \in WorkflowArgs})

InitWorkflow ==
    /\ issues = EmptyDict
    /\ graph = <<>>
    /\ last = NoCall
    /\ writes = 0
    /\ given = <<>>
    /\ clock = 1
    /\ graph2 = <<>>
    /\ walk = Idle
    /\ workflows \in WorkflowStores
    /\ hints = EmptyDict

NextWorkflow == ExecuteWorkflow

SpecWorkflow == InitWorkflow /\ [][NextWorkflow]_vars

(***************************************************************************)
(* HintService over an initially empty hints directory.                    *)
(***************************************************************************)
\* The tokens generate_id("wv-hint") can return, scaled down.
HintIdOrder == <<"wv-hint-a", "wv-hint-b", "wv-hint-c">>

\* generate_id("wv-hint"): any token; the first unused one in HintIdOrder
\* stands for every fresh token, each used one is a collision.
generate_hint_id(used) ==
    used \cup {HintIdOrder[i] : i \in {j \in 1..Len(HintIdOrder) :
                                         /\ HintIdOrder[j] \notin used
                                         /\ \A k \in 1..(j - 1) : HintIdOrder[k] \in used}}

\* The title arguments: one title in three spellings and a second title.
HintTitles == {"Tip", "TIP", "tip", "release"}

HintContents == {"old", "new"}

\* The labels arguments: None, the empty list and a list of one label.
HintLabelArgs == {<<>>, << <<>> >>, << <<"db">> >>}

\* labels or []
labels_or_empty(labels) == IF labels = <<>> THEN <<>> ELSE labels[1]

Hint(id, title, content, labels, created_at, updated_at) ==
    [id |-> id, title |-> title, content |-> content, labels |-> labels,
     created_at |-> created_at, updated_at |-> updated_at]

\* The front matter and the body of a hint file.
_serialize_hint(hint) ==
    [metadata |-> [id |-> hint.id, title |-> hint.title, labels |-> hint.labels,
                   created_at |-> hint.created_at, updated_at |-> hint.updated_at],
     content |-> hint.content]

_parse_hint(post) ==
    Hint(post.metadata.id, post.metadata.title, post.content, post.metadata.labels,
         post.metadata.created_at, post.metadata.updated_at)

\* HintStorage.write_hint: the file named after the hint's ID is replaced.
write_hint(store, hint) ==
    [x \in (DOMAIN store) \cup {hint.id} |->
       IF x = hint.id THEN _serialize_hint(hint) ELSE store[x]]

read_hint(store, hint_id) ==
    IF hint_id \in DOMAIN store THEN <<_parse_hint(store[hint_id])>> ELSE <<>>

\* find_hint_by_title comparing the titles as written.
find_hint_by_title_exact(store, title) ==
    LET hits == {id \in DOMAIN store : read_hint(store, id)[1].title = title}
    IN IF hits = {} THEN {<<>>} ELSE {read_hint(store, id) : id \in hits}

\* find_hint_by_title: the first hint of list_all_hints whose lowered title
\* is the lowered argument.  list_all_hints sorts the hints by lowered title
\* and keeps the directory order among equal ones, so any of the matching
\* hints can be the first.
find_hint_by_title(store, title) ==
    LET title_lower == lower(title)
        hits == {id \in DOMAIN store : lower(read_hint(store, id)[1].title) = title_lower}
    IN IF hits = {} THEN {<<>>} ELSE {read_hint(store, id) : id \in hits}

\* The outcome of a HintService call: the hints directory it leaves and the
\* hint it returns.
HintOutcome(store, ret) == [hints |-> store, ret |-> ret]

\* HintService.create_or_update_hint; new_id is what generate_id returns if
\* it is called.
create_or_update_hint(store, title, content, labels, new_id, now) ==
    {IF existing # <<>>
       THEN LET updated == [existing[1] EXCEPT !.content = content,
                                               !.labels = labels_or_empty(labels),
                                               !.updated_at = now]
            IN HintOutcome(write_hint(store, updated), updated)
       ELSE LET hint == Hint(new_id, lower(title), content, labels_or_empty(labels), now, now)
            IN HintOutcome(write_hint(store, hint), hint) :
     existing \in find_hint_by_title(store, title)}

CreateOrUpdateHint ==
    \E title \in HintTitles, content \in HintContents, labels \in HintLabelArgs :
      \E new_id \in generate_hint_id(DOMAIN hints) :
        \E o \in create_or_update_hint(hints, title, content, labels, new_id, clock) :
          /\ hints' = o.hints
          /\ last' = Call("create_or_update_hint", <<>>, <<o.ret>>)
          /\ given' = <<title, content, labels>>
          /\ UNCHANGED <<issues, graph, writes, workflows, graph2, clock, walk>>

InitHints ==
    /\ issues = EmptyDict
    /\ graph = <<>>
    /\ last = NoCall
    /\ writes = 0
    /\ given = <<>>
    /\ clock = 1
    /\ graph2 = <<>>
    /\ walk = Idle
    /\ workflows = EmptyDict
    /\ hints = EmptyDict

NextHints ==
    \/ CreateOrUpdateHint
    \/ Tick

SpecHints == InitHints /\ [][NextHints]_vars

(***************************************************************************)
(* The two listing methods on their own: get_ready_issues and list_issues  *)
(* called with any label list and limit on a store of issues that differ   *)
(* in priority, creation time, labels and status.  The stores are the ones *)
(* the service can leave behind: every blocker is a stored issue, a closed *)
(* issue carries its closing time.                                         *)
(***************************************************************************)
MaxLimit == 2

\* The (priority, created_at) pairs of the stored issues.
SortKeys == {<<1, 1>>, <<1, 2>>, <<2, 1>>}

LabelSets == {{}, {"ui"}}

\* The labels argument: None or the empty list, or a list of labels.
LabelArgs == {<<>>, <<"db">>, <<"ui", "db">>}

\* The limit argument: None, or a number.
LimitArgs == {<<>>} \cup {<<n>> : n \in 0..MaxLimit}

\* The status argument of list_issues: None, or a status.
StatusArgs == {<<>>, <<"OPEN">>}

\* The issues with the ID id in a store over the IDs S: the first ID may be
\* closed, the last ID may be blocked by the first.
ReadyIssues(id, S) ==
    {[Issue(id, st, bb, "", k[2]) EXCEPT !.priority = k[1], !.labels = l,
                                         !.closed_at = IF st = "CLOSED" THEN <<k[2]>> ELSE <<>>] :
       st \in (IF id = IdOrder[1] THEN {"OPEN", "CLOSED"} ELSE {"OPEN"}),
       bb \in (IF id = IdOrder[Len(IdOrder)] /\ IdOrder[1] \in S
                THEN {<<>>, <<IdOrder[1]>>} ELSE {<<>>}),
       k \in SortKeys, l \in LabelSets}

RECURSIVE ReadyStoresOver(_, _)
ReadyStoresOver(ids, S) ==
    IF ids = {} THEN {EmptyDict}
    ELSE LET id == CHOOSE x \in ids : TRUE
         IN UNION {{Put(rest, id, i) : i \in ReadyIssues(id, S)} :
                   rest \in ReadyStoresOver(ids \ {id}, S)}

ReadyStores == UNION {ReadyStoresOver(S, S) : S \in SUBSET IssueIds}

GetReadyIssuesFiltered ==
    Step("get_ready_issues",
         UNION {get_ready_issues(issues, graph, labels, limit, clock) :
                  labels \in LabelArgs, limit \in LimitArgs})

ListIssues ==
    Step("list_issues",
         UNION {list_issues(issues, graph, status, labels, exclude_closed, clock) :
                  status \in StatusArgs, labels \in LabelArgs, exclude_closed \in BOOLEAN})

InitReady ==
    /\ issues \in ReadyStores
    /\ graph = <<>>
    /\ last = NoCall
    /\ writes = 0
    /\ given = <<>>
    /\ clock = 1
    /\ graph2 = <<>>
    /\ workflows = EmptyDict
    /\ hints = EmptyDict
    /\ walk = Idle

NextReady ==
    \/ GetReadyIssuesFiltered
    \/ ListIssues

SpecReady == InitReady /\ [][NextReady]_vars

(***************************************************************************)
(* Vocabulary of the properties.                                           *)
(***************************************************************************)
\* The IDs reachable from the IDs of S by zero or more edges of the relation
\* that maps an ID to the set of its direct blockers.
RECURSIVE Closure(_, _)
Closure(blockers, S) ==
    LET N == S \cup UNION {Get(blockers, x) : x \in S}
    IN IF N = S THEN S ELSE Closure(blockers, N)

\* The IDs reachable from id by one or more edges.
TransitiveBlockers(blockers, id) == Closure(blockers, Get(blockers, id))

Acyclic(blockers) == \A id \in DOMAIN blockers : id \notin TransitiveBlockers(blockers, id)

\* The blocked_by relation of the store.
StoredBlockers == [id \in DOMAIN issues |-> Range(issues[id].blocked_by)]

Ids(L) == {L[i].id : i \in 1..Len(L)}

NoDuplicates(s) == \A i, j \in 1..Len(s) : s[i] = s[j] => i = j

\* C3: detect_cycle(from_id, to_id) is true exactly when from_id equals to_id
\* or from_id is reachable from to_id along blocked_by edges, on every graph
\* and whatever the order in which blockers are pushed; so it is false on a
\* diamond queried from its bottom to its top.
C3_DetectCycleIsReachability ==
    graph # <<>> =>
      \A from_id \in GraphIds : \A to_id \in GraphIds :
        detect_cycle(graph[1], from_id, to_id) =
          {from_id \in Closure(graph[1].blocked_by, {to_id})}

Diamond(g) ==
    /\ DOMAIN g.blocked_by = {"wv-b", "wv-c", "wv-d"}
    /\ g.blocked_by["wv-d"] = {"wv-b", "wv-c"}
    /\ g.blocked_by["wv-b"] = {"wv-a"}
    /\ g.blocked_by["wv-c"] = {"wv-a"}

C3_Witness ==
    /\ graph # <<>>
    /\ Diamond(graph[1])
    /\ last.op = "detect_cycle"
    /\ last.ret = <<FALSE>>
    /\ detect_cycle(graph[1], "wv-d", "wv-a") = {FALSE}
    /\ detect_cycle(graph[1], "wv-a", "wv-d") = {TRUE}

\* C6: in a built graph blocks is the transpose of blocked_by (x is in
\* get_blocked_by_this(y) exactly when y is in get_blockers(x)) and all_ids is
\* the set of IDs of the input issues.
C6_BlocksIsTranspose ==
    graph # <<>> =>
      /\ \A x \in IssueIds : \A y \in IssueIds :
           (x \in get_blocked_by_this(graph[1], y)) <=> (y \in get_blockers(graph[1], x))
      /\ graph[1].all_ids = DOMAIN issues

C6_Witness ==
    /\ last.op = "build"
    /\ graph # <<>>
    /\ DOMAIN issues = {"wv-a", "wv-b"}
    /\ issues["wv-b"].blocked_by = <<"wv-a", "wv-a">>
    /\ get_blockers(graph[1], "wv-b") = {"wv-a"}
    /\ get_blocked_by_this(graph[1], "wv-a") = {"wv-b"}
    /\ get_blockers(graph[1], "wv-a") = {}
    /\ graph[1].all_ids = {"wv-a", "wv-b"}

\* C7: on an acyclic graph every list get_transitive_blockers can return puts
\* each blocker before the issues it (transitively) blocks, and for the chain
\* c blocked by b blocked by a it returns exactly [a, b].
C7_BlockersBeforeDependents ==
    (graph # <<>> /\ Acyclic(graph[1].blocked_by)) =>
      /\ \A id \in GraphIds : \A r \in get_transitive_blockers(graph[1], id) :
           \A i, j \in 1..Len(r) :
             r[i] \in TransitiveBlockers(graph[1].blocked_by, r[j]) => i < j
      /\ \A a, b, c \in GraphIds :
           (/\ Cardinality({a, b, c}) = 3
            /\ DOMAIN graph[1].blocked_by = {b, c}
            /\ graph[1].blocked_by[c] = {b}
            /\ graph[1].blocked_by[b] = {a})
           => get_transitive_blockers(graph[1], c) = {<<a, b>>}

C7_Witness ==
    /\ graph # <<>>
    /\ Diamond(graph[1])
    /\ last.op = "get_transitive_blockers"
    /\ last.ret = <<(<<"wv-a", "wv-c", "wv-b">>)>>
    /\ <<"wv-a", "wv-b", "wv-c">> \in get_transitive_blockers(graph[1], "wv-d")

\* C8: on every graph, cyclic or not, every list get_transitive_blockers(id)
\* can return has no duplicates, does not contain id, and holds exactly the
\* IDs other than id reachable from id by one or more blocked_by edges.
C8_TransitiveBlockersAreReachable ==
    graph # <<>> =>
      \A id \in GraphIds : \A r \in get_transitive_blockers(graph[1], id) :
        /\ NoDuplicates(r)
        /\ id \notin Range(r)
        /\ Range(r) = TransitiveBlockers(graph[1].blocked_by, id) \ {id}

C8_Witness ==
    /\ graph # <<>>
    /\ ~Acyclic(graph[1].blocked_by)
    /\ "wv-a" \in TransitiveBlockers(graph[1].blocked_by, "wv-a")
    /\ last.op = "get_transitive_blockers"
    /\ last.ret = <<(<<"wv-c", "wv-b">>)>>
    /\ <<"wv-c", "wv-b">> \in get_transitive_blockers(graph[1], "wv-a")

\* C9: get_unblocked(L) returns, in L's order, exactly the issues of L whose
\* status is OPEN or IN_PROGRESS and none of whose blockers in the graph is
\* the ID of a non-CLOSED issue of L; CLOSED and BLOCKED issues are never
\* returned and an issue that is not in L does not block.
C9_Expected(g, L) ==
    LET blocking == {L[i].id : i \in {j \in 1..Len(L) : L[j].status # "CLOSED"}}
        Eligible(issue) == /\ issue.status \in {"OPEN", "IN_PROGRESS"}
                           /\ get_blockers(g, issue.id) \cap blocking = {}
    IN SelectSeq(L, Eligible)

C9_GetUnblockedIsEligible ==
    last.op = "get_unblocked" =>
      /\ last.ret[1] = C9_Expected(graph[1], given)
      /\ \A i \in 1..Len(last.ret[1]) : last.ret[1][i].status \notin {"CLOSED", "BLOCKED"}

C9_Witness ==
    /\ last.op = "get_unblocked"
    /\ graph[1].blocked_by = [x \in {"wv-b"} |-> {"wv-a", "wv-c"}]
    /\ given = <<Issue("wv-c", "CLOSED", <<>>, "", 1), Issue("wv-b", "IN_PROGRESS", <<>>, "", 1)>>
    /\ last.ret[1] = <<Issue("wv-b", "IN_PROGRESS", <<>>, "", 1)>>

\* The issues of a store that are OPEN or IN_PROGRESS and have no blocker that
\* is a stored issue with status OPEN, IN_PROGRESS or BLOCKED.
ReadyIn(store) ==
    {id \in DOMAIN store :
       /\ store[id].status \in {"OPEN", "IN_PROGRESS"}
       /\ \A b \in Range(store[id].blocked_by) :
            ~(b \in DOMAIN store /\ store[b].status \in {"OPEN", "IN_PROGRESS", "BLOCKED"})}

\* C1: after any sequence of service calls from the empty store, the
\* blocked_by relation over all stored issues has no cycle and no self-edge.
C1_StoredGraphAcyclic == Acyclic(StoredBlockers)

\* C2: get_ready_issues() returns exactly the stored issues that are OPEN or
\* IN_PROGRESS and have no blocker that is a stored issue with status OPEN,
\* IN_PROGRESS or BLOCKED (a CLOSED or missing blocker does not block), each
\* once and as stored.
C2_ReadyIssuesAreUnblocked ==
    last.op = "get_ready_issues" =>
      /\ Ids(last.ret[1]) = ReadyIn(issues)
      /\ Len(last.ret[1]) = Cardinality(ReadyIn(issues))
      /\ \A i \in 1..Len(last.ret[1]) :
           [last.ret[1][i] EXCEPT !.closed_at = <<>>] =
             [issues[last.ret[1][i].id] EXCEPT !.closed_at = <<>>]

C2_Witness ==
    /\ last.op = "get_ready_issues"
    /\ \E b \in Ids(last.ret[1]) : \E a \in Range(issues[b].blocked_by) :
         /\ issues[a].status = "CLOSED"
         /\ \E c \in DOMAIN issues \ Ids(last.ret[1]) :
              /\ issues[c].status = "OPEN"
              /\ Range(issues[c].blocked_by) = {a, b}

\* C4: once add_dependency(a, b) has succeeded for distinct existing issues a
\* and b (so detect_cycle(a, b) was false and a is now blocked by b),
\* detect_cycle(b, a) on the rebuilt graph is true and add_dependency(b, a)
\* raises DependencyError; the same holds of every stored edge.
C4_ReverseEdgeRejected ==
    (last.op = "add_dependency" /\ last.err = <<>>) =>
      \A a \in DOMAIN issues : \A b \in DOMAIN issues \ {a} :
        b \in Range(issues[a].blocked_by) =>
          /\ \A g \in _get_graph(issues, <<>>, clock) : detect_cycle(g, b, a) = {TRUE}
          /\ \A o \in add_dependency(issues, graph, b, a, clock) : o.err = DependencyError

\* C4, the step itself: a successful add_dependency(a, b) leaves b in a's
\* blocked_by.
C4_Witness ==
    /\ last.op = "add_dependency"
    /\ last.err = <<>>
    /\ graph = <<>>
    /\ \E a \in DOMAIN issues : \E b \in DOMAIN issues :
         /\ a # b
         /\ issues[a].blocked_by = <<b>>
         /\ issues[b].blocked_by = <<>>
         /\ \A o \in add_dependency(issues, graph, b, a, clock) : o.err = DependencyError

\* C5: for every existing issue a, detect_cycle(a, a) is true, add_dependency
\* (a, a) raises DependencyError, and a's blocked_by does not contain a.
C5_SelfDependencyRejected ==
    \A a \in DOMAIN issues :
      /\ \A g \in _get_graph(issues, graph, clock) : detect_cycle(g, a, a) = {TRUE}
      /\ \A o \in add_dependency(issues, graph, a, a, clock) : o.err = DependencyError
      /\ a \notin Range(issues[a].blocked_by)

\* C10: close_issue(id) on an existing issue returns the closed issue together
\* with exactly the issues that list id in blocked_by, were not ready before
\* the call and are ready after it.
C10_CloseReturnsNewlyUnblocked ==
    [][(last'.op = "close_issue" /\ last'.err = <<>>)
         => /\ Len(last'.ret) = 2
            /\ last'.ret[1].status = "CLOSED"
            /\ NoDuplicates(last'.ret[2])
            /\ Ids(last'.ret[2]) =
                 {x \in ReadyIn(issues') \ ReadyIn(issues) :
                    last'.ret[1].id \in Range(issues'[x].blocked_by)}]_vars

\* The number of occurrences of v in the list s.
Count(s, v) == Cardinality({i \in 1..Len(s) : s[i] = v})

\* The clock values of a call made now or after more time has passed.
Later == clock..(MaxClock + 1)

\* A call that raised err and touched neither the store nor the cache.
Rejected(o, err) == o = Raise(issues, graph, err)

\* C11: add_dependency is idempotent: for existing issues x and b, after
\* add_dependency(x, b) has succeeded x.blocked_by contains b exactly once,
\* and a second add_dependency(x, b) succeeds without writing to storage.
C11_AddDependencyIdempotent ==
    \A x \in DOMAIN issues : \A b \in DOMAIN issues :
      \A o1 \in add_dependency(issues, graph, x, b, clock) :
        o1.err = <<>> =>
          /\ Count(o1.issues[x].blocked_by, b) = 1
          /\ \A o2 \in add_dependency(o1.issues, o1.graph, x, b, clock) :
               /\ o2.err = <<>>
               /\ o2.written = 0
               /\ o2.issues = o1.issues

\* C12: after remove_dependency(x, b) returns for an existing issue x and
\* another ID b, b is not in x.blocked_by, also when x was created with b
\* listed twice.
C12_RemoveDependencyRemoves ==
    \A x \in DOMAIN issues : \A b \in IssueIds \ {x} :
      \A o \in remove_dependency(issues, graph, x, b, clock) :
        o.err = <<>> => b \notin Range(o.issues[x].blocked_by)

\* C13: remove_dependency(x, b) on an existing issue x whose blocked_by does
\* not contain b raises nothing, writes nothing and leaves every stored issue
\* (blocked_by and updated_at included) and the cached graph as they were,
\* whether or not b is a stored issue and whenever the call is made.
C13_RemoveAbsentIsNoOp ==
    \A x \in DOMAIN issues : \A b \in IssueIds \ Range(issues[x].blocked_by) :
      \A now \in Later : \A o \in remove_dependency(issues, graph, x, b, now) :
        /\ o.err = <<>>
        /\ o.written = 0
        /\ o.issues = issues
        /\ o.graph = graph

\* A remove_dependency that returned normally and left the cached graph in
\* place, so it wrote nothing, with a candidate b that is not stored.
C13_Witness ==
    /\ last.op = "remove_dependency"
    /\ last.err = <<>>
    /\ graph # <<>>
    /\ DOMAIN issues = {"wv-a", "wv-b"}
    /\ issues["wv-b"].blocked_by = <<"wv-a">>
    /\ \A o \in remove_dependency(issues, graph, "wv-b", "wv-c", clock + 1) :
         o.issues = issues /\ o.graph = graph

\* C14: add_dependency(x, b) on existing issues raises DependencyError exactly
\* when the edge would close a cycle (x is b or x is reachable from b along
\* blocked_by), and then the store is as before and nothing is written.
C14_CycleRejectedWithoutMutation ==
    \A x \in DOMAIN issues : \A b \in DOMAIN issues :
      \A o \in add_dependency(issues, graph, x, b, clock) :
        IF x \in Closure(StoredBlockers, {b})
        THEN /\ o.err = DependencyError
             /\ o.issues = issues
             /\ o.written = 0
        ELSE o.err = <<>>

\* An add_dependency rejected for a cycle through two other issues.
C14_Witness ==
    /\ last.op = "add_dependency"
    /\ last.err = DependencyError
    /\ \E x \in DOMAIN issues : \E b \in DOMAIN issues \ {x} :
         /\ b \notin Range(issues[x].blocked_by)
         /\ x \notin Range(issues[b].blocked_by)
         /\ x \in Closure(StoredBlockers, {b})
         /\ \A o \in add_dependency(issues, graph, x, b, clock) : o.err = DependencyError

\* C15: add_dependency(x, b) raises IssueNotFoundError naming the missing ID
\* (x if x is missing, else b) exactly when x or b is not stored, and then
\* the store is unchanged; the existence check comes before the cycle check,
\* so add_dependency(x, x) for a missing x raises IssueNotFoundError.
C15_MissingIssueNotFound ==
    \A x \in IssueIds : \A b \in IssueIds :
      \A o \in add_dependency(issues, graph, x, b, clock) :
        IF x \notin DOMAIN issues THEN Rejected(o, IssueNotFoundError(x))
        ELSE IF b \notin DOMAIN issues THEN Rejected(o, IssueNotFoundError(b))
        ELSE o.err \in {<<>>, DependencyError}

\* An add_dependency on a stored issue rejected for its missing blocker.
C15_Witness ==
    /\ last.op = "add_dependency"
    /\ \E x \in DOMAIN issues : \E b \in IssueIds \ DOMAIN issues :
         /\ last.err = IssueNotFoundError(b)
         /\ \A o \in add_dependency(issues, graph, b, b, clock) : o.err = IssueNotFoundError(b)

\* C16: create_issue raises DependencyError and writes nothing whenever an ID
\* in blocked_by, or a given parent, is not a stored issue; otherwise it
\* writes one issue, with status OPEN, the given blocked_by and the given
\* parent, and leaves the issues stored under other IDs as they were.
C16_CreateValidatesReferences ==
    \A blocked_by \in BlockedByArgs : \A parent \in IssueIds \cup {""} :
      \A new_id \in generate_id(DOMAIN issues) :
        \A o \in create_issue(issues, graph, DefaultPriority, {}, blocked_by, parent, new_id, clock) :
          IF (Range(blocked_by) \cup ({parent} \ {""})) \subseteq DOMAIN issues
          THEN /\ o.err = <<>>
               /\ o.written = 1
               /\ o.ret[1].status = "OPEN"
               /\ o.ret[1].blocked_by = blocked_by
               /\ o.ret[1].parent = parent
               /\ DOMAIN o.issues = DOMAIN issues \cup {o.ret[1].id}
               /\ o.issues[o.ret[1].id] = o.ret[1]
               /\ \A id \in DOMAIN issues \ {o.ret[1].id} : o.issues[id] = issues[id]
          ELSE /\ Len(o.err) = 2
               /\ o.err[1] = "DependencyError"
               /\ o.err[2] \in (Range(blocked_by) \cup {parent}) \ DOMAIN issues
               /\ Rejected(o, o.err)

\* A create_issue rejected for its missing parent, in a store that holds an
\* issue created with a parent and a blocker.
C16_Witness ==
    /\ last.op = "create_issue"
    /\ Len(last.err) = 2
    /\ last.err[1] = "DependencyError"
    /\ last.err[2] \notin DOMAIN issues
    /\ \E x \in DOMAIN issues :
         /\ issues[x].status = "OPEN"
         /\ issues[x].parent \in DOMAIN issues \ {x}
         /\ issues[x].blocked_by = <<issues[x].parent>>
         /\ \A o \in create_issue(issues, graph, DefaultPriority, {}, <<x>>, last.err[2], last.err[2], clock) :
              o = Raise(issues, graph, MissingReference(last.err[2]))

\* C17: close_issue, start_issue, update_issue_status, remove_dependency and
\* get_issue_with_dependencies, called with an ID that is not stored, raise
\* IssueNotFoundError for that ID and leave the store unchanged.
C17_MissingIdRaisesNotFound ==
    \A id \in IssueIds \ DOMAIN issues :
      /\ \A o \in close_issue(issues, graph, id, clock) : Rejected(o, IssueNotFoundError(id))
      /\ \A o \in start_issue(issues, graph, id, clock) : Rejected(o, IssueNotFoundError(id))
      /\ \A s \in Statuses : \A o \in update_issue_status(issues, graph, id, s, clock) :
           Rejected(o, IssueNotFoundError(id))
      /\ \A b \in IssueIds : \A o \in remove_dependency(issues, graph, id, b, clock) :
           Rejected(o, IssueNotFoundError(id))
      /\ \A o \in get_issue_with_dependencies(issues, graph, id, clock) :
           Rejected(o, IssueNotFoundError(id))

\* A remove_dependency rejected for a missing issue whose would-be blocker
\* is stored.
C17_Witness ==
    /\ last.op = "remove_dependency"
    /\ DOMAIN issues = {"wv-a", "wv-b"}
    /\ last.err = IssueNotFoundError("wv-c")
    /\ \A o \in remove_dependency(issues, graph, "wv-c", "wv-a", clock) :
         o.err = IssueNotFoundError("wv-c") /\ o.issues = issues

\* C18: every successful create_issue stores the new issue under an ID that
\* no stored issue had: the number of stored issues grows by one and every
\* issue stored before is unchanged.
C18_CreateNeverOverwrites ==
    \A blocked_by \in BlockedByArgs : \A new_id \in generate_id(DOMAIN issues) :
      \A o \in create_issue(issues, graph, DefaultPriority, {}, blocked_by, "", new_id, clock) :
        o.err = <<>> =>
          /\ o.ret[1].id \notin DOMAIN issues
          /\ Cardinality(DOMAIN o.issues) = Cardinality(DOMAIN issues) + 1
          /\ \A id \in DOMAIN issues : o.issues[id] = issues[id]

\* C19: close_issue records the close time only if none is set: closing an
\* issue that is CLOSED with a closed_at leaves closed_at as it was.
C19_CloseKeepsClosedAt ==
    \A x \in DOMAIN issues :
      (issues[x].status = "CLOSED" /\ issues[x].closed_at # <<>>) =>
        \A o \in close_issue(issues, graph, x, clock) :
          o.issues[x].closed_at = issues[x].closed_at

\* The closed_at values of issue x after update_issue_status(x, CLOSED) at t1,
\* update_issue_status(x, OPEN) at t2 and update_issue_status(x, CLOSED) at
\* t3, as the triples <<after first close, after reopen, after second close>>.
CloseReopenClose(x, t1, t2, t3) ==
    UNION {UNION {{<<o1.issues[x].closed_at, o2.issues[x].closed_at, o3.issues[x].closed_at>> :
                     o3 \in update_issue_status(o2.issues, o2.graph, x, "CLOSED", t3)} :
                  o2 \in update_issue_status(o1.issues, o1.graph, x, "OPEN", t2)} :
           o1 \in update_issue_status(issues, graph, x, "CLOSED", t1)}

C21_CloseKeepsBlockedBy ==
    \A x \in DOMAIN issues : \A now \in Later :
      \A o \in close_issue(issues, graph, x, now) :
        /\ DOMAIN o.issues = DOMAIN issues
        /\ \A id \in DOMAIN issues :
             /\ o.issues[id].blocked_by = issues[id].blocked_by
             /\ id # x => o.issues[id] = issues[id]
        /\ o.issues[x] = [issues[x] EXCEPT !.status = "CLOSED",
                                           !.updated_at = o.issues[x].updated_at,
                                           !.closed_at = o.issues[x].closed_at]

\* A close_issue of an issue that a stored dependent, itself blocked by a
\* second issue, still lists afterwards.
C21_Witness ==
    /\ last.op = "close_issue"
    /\ last.err = <<>>
    /\ issues[last.ret[1].id].status = "CLOSED"
    /\ \E d \in DOMAIN issues \ {last.ret[1].id} :
         /\ last.ret[1].id \in Range(issues[d].blocked_by)
         /\ Len(issues[d].blocked_by) = 2
         /\ issues[d].status = "OPEN"

\* C22: after any sequence of service calls from the empty store, every ID in
\* the blocked_by of a stored issue and every parent that is set is the ID of
\* a stored issue.
C22_NoDanglingReference ==
    \A x \in DOMAIN issues :
      /\ Range(issues[x].blocked_by) \subseteq DOMAIN issues
      /\ issues[x].parent # "" => issues[x].parent \in DOMAIN issues

\* An issue with a parent that add_dependency has given a second blocker.
C22_Witness ==
    /\ last.op = "add_dependency"
    /\ last.err = <<>>
    /\ \E x \in DOMAIN issues :
         /\ issues[x].parent \in DOMAIN issues \ {x}
         /\ Len(issues[x].blocked_by) = 2
         /\ NoDuplicates(issues[x].blocked_by)
         /\ issues[x].updated_at = clock

\* C23: once an issue is CLOSED, no call of start_issue, close_issue,
\* add_dependency or remove_dependency moves it out of CLOSED.
C23_ClosedIsTerminal ==
    \A x \in DOMAIN issues :
      issues[x].status = "CLOSED" =>
        \A id \in IssueIds : \A b \in IssueIds :
          \A o \in start_issue(issues, graph, id, clock)
                    \cup close_issue(issues, graph, id, clock)
                    \cup add_dependency(issues, graph, id, b, clock)
                    \cup remove_dependency(issues, graph, id, b, clock) :
            o.issues[x].status = "CLOSED"

\* The ready issues of the store: the open issues that are not BLOCKED and
\* have no open blocker.
ReadyIds ==
    {id \in DOMAIN issues :
       /\ is_open(issues[id])
       /\ issues[id].status # "BLOCKED"
       /\ \A b \in Range(issues[id].blocked_by) : b \in DOMAIN issues => ~is_open(issues[b])}

\* The ready issues that pass the label filter.
FilteredReadyIds(labels) ==
    IF labels = <<>> THEN ReadyIds
    ELSE {id \in ReadyIds : (Range(labels) \cap issues[id].labels) # {}}

Min(a, b) == IF a < b THEN a ELSE b

IsSorted(L) ==
    \A k \in 1..(Len(L) - 1) :
      \/ L[k].priority < L[k + 1].priority
      \/ L[k].priority = L[k + 1].priority /\ L[k].created_at <= L[k + 1].created_at

\* C24: whenever a limit n >= 0 is given to get_ready_issues, n = 0
\* included, the result has min(n, number of label-filtered ready issues)
\* elements and is the first n elements of the sorted ready list.
C24_LimitTruncates ==
    \A labels \in LabelArgs, n \in 0..MaxLimit :
      \A o \in get_ready_issues(issues, graph, labels, <<n>>, clock) :
        /\ o.err = <<>>
        /\ Len(o.ret[1]) = Min(n, Cardinality(FilteredReadyIds(labels)))
        /\ \E u \in get_ready_issues(issues, graph, labels, <<>>, clock) :
             o.ret[1] = SubSeq(u.ret[1], 1, Len(o.ret[1]))

\* C25: the list returned by get_ready_issues and by list_issues is sorted
\* by priority ascending and, among equal priorities, by creation time
\* ascending.
C25_ResultsAreSorted ==
    /\ \A labels \in LabelArgs, limit \in LimitArgs :
         \A o \in get_ready_issues(issues, graph, labels, limit, clock) :
           o.err = <<>> /\ IsSorted(o.ret[1])
    /\ \A status \in StatusArgs, labels \in LabelArgs, exclude_closed \in BOOLEAN :
         \A o \in list_issues(issues, graph, status, labels, exclude_closed, clock) :
           o.err = <<>> /\ IsSorted(o.ret[1])
    /\ last.op \in {"get_ready_issues", "list_issues"} => IsSorted(last.ret[1])

\* A list of three issues was returned in which the priority decides the
\* order against the creation time, and the creation time decides among
\* equal priorities.
C25_Witness ==
    /\ last.op \in {"get_ready_issues", "list_issues"}
    /\ Len(last.ret[1]) = 3
    /\ last.ret[1][1].priority = last.ret[1][2].priority
    /\ last.ret[1][1].created_at < last.ret[1][2].created_at
    /\ last.ret[1][2].priority < last.ret[1][3].priority
    /\ last.ret[1][2].created_at > last.ret[1][3].created_at

\* C26: given a non-empty label list and no limit, get_ready_issues returns
\* exactly the ready issues that share at least one label with the list,
\* each of them once.
C26_LabelFilterIsIntersection ==
    \A labels \in LabelArgs \ {<<>>} :
      \A o \in get_ready_issues(issues, graph, labels, <<>>, clock) :
        /\ o.err = <<>>
        /\ Ids(o.ret[1]) = {id \in ReadyIds : (Range(labels) \cap issues[id].labels) # {}}
        /\ Len(o.ret[1]) = Cardinality(Ids(o.ret[1]))

\* get_ready_issues returned one issue of a store with two ready issues:
\* the one it dropped has no label, the one it returned carries only some
\* of the labels asked for.
C26_Witness ==
    /\ last.op = "get_ready_issues"
    /\ Cardinality(ReadyIds) = 2
    /\ Len(last.ret[1]) = 1
    /\ last.ret[1][1].labels = {"ui"}
    /\ \E id \in ReadyIds : issues[id].labels = {}
    /\ last.ret[1] \in {o.ret[1] : o \in get_ready_issues(issues, graph, <<"ui", "db">>, <<>>, clock)}

\* C27: get_issue_with_dependencies(id) on an existing issue raises nothing
\* and returns the issue and, as dependencies, the stored issues among
\* get_transitive_blockers(id) in the order of that list: blocker IDs
\* without an issue are left out, id itself is never in the list, and on an
\* acyclic store every blocker stands before the issues it blocks.
C27_DependenciesSkipDangling ==
    \A id \in DOMAIN issues :
      \A o \in get_issue_with_dependencies(issues, graph, id, clock) :
        /\ o.err = <<>>
        /\ o.issues = issues
        /\ o.ret[1] = read_issue(issues, id, clock)[1]
        /\ LET deps == o.ret[2]
               dep_ids == [i \in 1..Len(deps) |-> deps[i].id]
           IN /\ \A i \in 1..Len(deps) : deps[i] = read_issue(issues, dep_ids[i], clock)[1]
              /\ NoDuplicates(dep_ids)
              /\ Range(dep_ids) = (TransitiveBlockers(StoredBlockers, id) \cap DOMAIN issues) \ {id}
              /\ \E g \in _get_graph(issues, graph, clock) :
                   \E t \in get_transitive_blockers(g, id) :
                     dep_ids = SelectSeq(t, LAMBDA d : d \in DOMAIN issues)
              /\ Acyclic(StoredBlockers) =>
                   \A i, j \in 1..Len(deps) :
                     i < j => dep_ids[j] \notin TransitiveBlockers(StoredBlockers, dep_ids[i])

\* The call returned two dependencies, a blocker before the issue it
\* blocks, for an issue that also has a transitive blocker without an issue.
C27_Witness ==
    /\ last.op = "get_issue_with_dependencies"
    /\ last.err = <<>>
    /\ Len(last.ret[2]) = 2
    /\ last.ret[2][1].id \in Range(last.ret[2][2].blocked_by)
    /\ Acyclic(StoredBlockers)
    /\ (TransitiveBlockers(StoredBlockers, last.ret[1].id) \ DOMAIN issues) # {}

\* The pairs <<x, d>> of the store in which the issue x lists a blocker ID
\* d that is not the ID of any issue.
DanglingReferences ==
    {<<x, d>> \in (DOMAIN issues) \X GraphIds :
       d \in Range(issues[x].blocked_by) /\ d \notin DOMAIN issues}

\* C28 as stated: when an issue X lists a blocker ID D that is not the ID of
\* any input issue, build records D in blocked_by[X], D is not in all_ids,
\* and D has no entry of its own in blocks.
C28_DanglingHasNoBlocksEntry ==
    graph # <<>> =>
      \A r \in DanglingReferences :
        /\ r[2] \in Get(graph[1].blocked_by, r[1])
        /\ r[2] \notin graph[1].all_ids
        /\ r[2] \notin DOMAIN graph[1].blocks

\* C28, amended: when an issue X lists a blocker ID D that is not the ID of
\* any input issue, build records the edge in both maps: D is in
\* blocked_by[X] and X is in blocks[D]; D is not in all_ids and has no entry
\* of its own in blocked_by.
C28_DanglingEdgeRecorded ==
    graph # <<>> =>
      \A r \in DanglingReferences :
        /\ r[2] \in Get(graph[1].blocked_by, r[1])
        /\ r[2] \notin graph[1].all_ids
        /\ r[2] \notin DOMAIN graph[1].blocked_by
        /\ r[2] \in DOMAIN graph[1].blocks
        /\ r[1] \in graph[1].blocks[r[2]]

\* A graph was built from a store in which a stored issue is blocked by an
\* ID without an issue and by a stored issue.
C28_Witness ==
    /\ graph # <<>>
    /\ last.op = "build"
    /\ \E r \in DanglingReferences :
         /\ graph[1].blocks[r[2]] = {r[1]}
         /\ (Range(issues[r[1]].blocked_by) \cap DOMAIN issues) # {}

\* C29: a built graph is read-only: no step of is_blocked, get_unblocked,
\* detect_cycle, get_blockers, get_blocked_by_this or
\* get_transitive_blockers, and no later change of a set that get_blockers
\* or get_blocked_by_this returned, changes blocked_by, blocks or all_ids.
C29_BuiltGraphIsReadOnly == [][graph # <<>> => graph' = graph]_vars

\* The caller holds a set returned for an ID that has blockers and has
\* changed it: it differs from every set of the graph's maps, and the graph
\* is still the one build made, without an entry for the absent IDs.
C29_Witness ==
    /\ graph # <<>>
    /\ last.op = "get_blockers"
    /\ last.ret[1].set # {}
    /\ DOMAIN graph[1].blocked_by \notin {{}, IssueIds}
    /\ \A id \in IssueIds : last.ret[1].set # Get(graph[1].blocked_by, id)
    /\ graph[1] \in {build(L) : L \in read_all_issues(issues, clock)}

\* C30: detect_cycle and get_transitive_blockers look up the blockers of
\* each node at most once, and every traversal that has started returns, on
\* graphs with cycles and IDs without an issue as on all others.
C30_TraversalsTerminate ==
    /\ [](NoDuplicates(walk.expanded) /\ Len(walk.expanded) <= Cardinality(IssueIds))
    /\ (walk.op = "detect_cycle") ~> (walk = Idle /\ last.ret # <<>>)
    /\ (walk.op = "get_transitive_blockers") ~> (walk = Idle /\ last.ret # <<>>)

\* detect_cycle has emptied its stack and is about to return False, after
\* expanding a node that lies on a cycle and an ID without an issue, each
\* once.
C30_Witness ==
    /\ walk.op = "detect_cycle"
    /\ walk.stack = <<>>
    /\ \E x \in walk.visited : x \in TransitiveBlockers(StoredBlockers, x)
    /\ (walk.visited \ DOMAIN issues) # {}
    /\ Len(walk.expanded) = Cardinality(walk.visited)

\* C31: with one IssueService as the only writer, the cached graph is
\* absent or equal to build of all stored issues after every sequence of
\* operations; every step that changes the store leaves the cache absent,
\* and every step that leaves a cache in place has left the store as it was.
C31_CacheIsAbsentOrFresh ==
    /\ [](graph = <<>> \/ graph[1] \in {build(L) : L \in read_all_issues(issues, clock)})
    /\ [][issues' # issues => graph' = <<>>]_vars

\* A graph with an edge is cached after a query that followed at least two
\* writes: it was built after the cache had been discarded.
C31_Witness ==
    /\ graph # <<>>
    /\ graph[1].blocked_by # EmptyDict
    /\ writes >= 2
    /\ last.op \in {"get_ready_issues", "add_dependency", "remove_dependency"}
    /\ graph[1] \in {build(L) : L \in read_all_issues(issues, clock)}

\* The blocked_by relation of a store.
BlockersOf(store) == [id \in DOMAIN store |-> Range(store[id].blocked_by)]

\* The first instance holds a cached graph in which a is not a transitive
\* blocker of b, while the store says that b is blocked by a and a is not
\* yet blocked by b.
StaleFor(a, b) ==
    /\ graph # <<>>
    /\ a \notin TransitiveBlockers(graph[1].blocked_by, b)
    /\ a \in Range(issues[b].blocked_by)
    /\ b \notin Range(issues[a].blocked_by)

\* C32: with two IssueService instances over one store, whenever the first
\* holds a cached graph from before the second added "b blocked by a", the
\* first instance's add_dependency(a, b) succeeds on its stale graph and
\* writes a blocked by b, leaving a cycle in storage.
C32_StaleCacheAdmitsCycle ==
    \A a \in DOMAIN issues : \A b \in DOMAIN issues \ {a} :
      StaleFor(a, b) =>
        \A now \in Later : \A o \in add_dependency(issues, graph, a, b, now) :
          /\ o.err = <<>>
          /\ o.written = 1
          /\ b \in Range(o.issues[a].blocked_by)
          /\ a \in Range(o.issues[b].blocked_by)
          /\ ~Acyclic(BlockersOf(o.issues))

\* The first instance's add_dependency has just succeeded and the store
\* holds two issues that block each other.
C32_Witness ==
    /\ last.op = "add_dependency"
    /\ last.err = <<>>
    /\ \E a \in DOMAIN issues : \E b \in DOMAIN issues \ {a} :
         /\ a \in Range(issues[b].blocked_by)
         /\ b \in Range(issues[a].blocked_by)
    /\ ~Acyclic(StoredBlockers)

\* C33: closing an issue never makes another issue unready: for every
\* stored issue c, every issue other than c that get_ready_issues returns
\* before close_issue(c) is returned by get_ready_issues after it.
C33_CloseKeepsOthersReady ==
    LET before == {Ids(r.ret[1]) : r \in get_ready_issues(issues, graph, <<>>, <<>>, clock)}
    IN \A c \in DOMAIN issues :
         \A o \in close_issue(issues, graph, c, clock) :
           LET after == {Ids(r.ret[1]) : r \in get_ready_issues(o.issues, o.graph, <<>>, <<>>, clock)}
           IN /\ o.err = <<>>
              /\ \A B \in before : \A A \in after : (B \ {c}) \subseteq A /\ c \notin A

\* close_issue has closed the only blocker of an issue, which is ready now,
\* next to an issue that was ready before and still is.
C33_Witness ==
    /\ last.op = "close_issue"
    /\ last.err = <<>>
    /\ \E x \in ReadyIn(issues) : \E y \in ReadyIn(issues) \ {x} :
         /\ Range(issues[x].blocked_by) = {last.ret[1].id}
         /\ issues[y].blocked_by = <<>>
         /\ last.ret[1].id \notin {x, y}

AllClosed == \A id \in DOMAIN issues : issues[id].status = "CLOSED"

\* The blocked_by relation is acyclic and no issue has the status BLOCKED.
Workable ==
    /\ Acyclic(StoredBlockers)
    /\ \A id \in DOMAIN issues : issues[id].status # "BLOCKED"

\* C34: no deadlock on an acyclic backlog: whenever the blocked_by relation
\* is acyclic, some issue is not CLOSED and no issue is BLOCKED,
\* get_ready_issues() returns at least one issue; and from every such state
\* repeatedly closing a ready issue leads to a state where every issue is
\* CLOSED.
C34_AcyclicBacklogIsWorkedOff ==
    /\ []((Workable /\ ~AllClosed) =>
           \A r \in get_ready_issues(issues, graph, <<>>, <<>>, clock) :
             r.err = <<>> /\ r.ret[1] # <<>>)
    /\ Workable ~> AllClosed

\* Three issues that formed a chain of blockers have been closed one after
\* the other, each when it was ready, and all are CLOSED.
C34_Witness ==
    /\ last.op = "close_issue"
    /\ writes = 3
    /\ AllClosed
    /\ Workable
    /\ \E x, y, z \in DOMAIN issues :
         /\ Cardinality({x, y, z}) = 3
         /\ issues[x].blocked_by = <<y>>
         /\ issues[y].blocked_by = <<z>>

\* The position of the step with the title t in the step list.
StepIndex(steps, t) == CHOOSE k \in 1..Len(steps) : steps[k].title = t

\* The result ret of execute_workflow is what the workflow asks for: one
\* OPEN issue per step, in step order, each blocked by the issues created
\* for the steps it depends on.
IssuesMatchSteps(steps, ret) ==
    /\ Len(ret) = Len(steps)
    /\ \A k \in 1..Len(steps) :
         /\ ret[k].status = "OPEN"
         /\ ret[k].blocked_by =
              [j \in 1..Len(steps[k].depends_on) |->
                 ret[StepIndex(steps, steps[k].depends_on[j])].id]

\* C35: for every stored workflow whose depends_on titles all name steps of
\* the workflow, execute_workflow raises nothing and creates one OPEN issue
\* per step, in step order, each blocked by the issues created for its
\* depends_on steps wherever those steps stand; the created issues are
\* stored and form an acyclic graph.
C35_WorkflowCreatesItsSteps ==
    \A name_or_id \in WorkflowArgs :
      LET workflow == get_workflow(workflows, name_or_id)
      IN (workflow # <<>> /\ invalid_dependencies(workflow[1].steps) = {}) =>
           \A o \in execute_workflow(workflows, issues, graph, name_or_id, clock) :
             /\ o.err = <<>>
             /\ o.written = Len(workflow[1].steps)
             /\ IssuesMatchSteps(workflow[1].steps, o.ret[1])
             /\ \A k \in 1..Len(o.ret[1]) :
                  /\ o.ret[1][k].id \in DOMAIN o.issues
                  /\ o.issues[o.ret[1][k].id] = o.ret[1][k]
             /\ NoDuplicates([k \in 1..Len(o.ret[1]) |-> o.ret[1][k].id])
             /\ Acyclic(BlockersOf(o.issues))

\* C36: execute_workflow is all-or-nothing: whenever it fails, it raises
\* ValueError and no issue has been created in storage.
C36_WorkflowAllOrNothing ==
    \A name_or_id \in WorkflowArgs :
      \A o \in execute_workflow(workflows, issues, graph, name_or_id, clock) :
        o.err # <<>> =>
          /\ o.err = ValueError
          /\ o.issues = issues
          /\ o.written = 0

\* The stored hints whose title equals the given one ignoring case.
HintsTitled(store, title) ==
    {id \in DOMAIN store : lower(read_hint(store, id)[1].title) = lower(title)}

NoTwoTitlesEqualIgnoringCase(store) ==
    \A a \in DOMAIN store : HintsTitled(store, read_hint(store, a)[1].title) = {a}

\* C37: after any sequence of create_or_update_hint calls no two stored
\* hints have titles that are equal ignoring case; a call whose title
\* matches a stored hint ignoring case rewrites that hint with the new
\* content and labels under its old ID and title and changes no other
\* hint, and a call adds a hint file only if its title matches no stored
\* hint.
C37_HintTitlesStayUnique ==
    /\ NoTwoTitlesEqualIgnoringCase(hints)
    /\ \A title \in HintTitles, content \in HintContents, labels \in HintLabelArgs :
         \A new_id \in generate_hint_id(DOMAIN hints) :
           \A o \in create_or_update_hint(hints, title, content, labels, new_id, clock) :
             LET matching == HintsTitled(hints, title)
             IN /\ NoTwoTitlesEqualIgnoringCase(o.hints)
                /\ matching # {} =>
                     /\ o.ret.id \in matching
                     /\ DOMAIN o.hints = DOMAIN hints
                     /\ \A id \in DOMAIN hints \ {o.ret.id} : o.hints[id] = hints[id]
                     /\ read_hint(o.hints, o.ret.id) = <<o.ret>>
                     /\ o.ret.title = read_hint(hints, o.ret.id)[1].title
                     /\ o.ret.content = content
                     /\ o.ret.labels = labels_or_empty(labels)
                /\ (DOMAIN o.hints) \ (DOMAIN hints) # {} => matching = {}
                /\ matching = {} =>
                     /\ read_hint(o.hints, new_id) = <<o.ret>>
                     /\ o.ret.title = lower(title)

\* A hint created as "Tip" has been updated by a later call that spelled
\* the title "TIP", next to a second hint.
C37_Witness ==
    /\ last.op = "create_or_update_hint"
    /\ given[1] = "TIP"
    /\ last.ret[1].title = "tip"
    /\ last.ret[1].updated_at > last.ret[1].created_at
    /\ Cardinality(DOMAIN hints) = 2

====
